---- MODULE Spec2Model ----
(***************************************************************************)
(* Layout validation framework (claude/ui/test_framework.py) and the       *)
(* Auth.razor test runner (claude/ui/Auth.razor/Auth.razor.test.py).       *)
(*                                                                         *)
(* Python values are modelled as follows.                                  *)
(*   str    a sequence of atoms (each atom a run of characters that no     *)
(*          other atom overlaps), so `a in b` is contiguous-subsequence    *)
(*          search and '' is <<>>                                          *)
(*   None   the one-atom sequence NONE, which no string of the model uses  *)
(*   dict   a function whose DOMAIN is the set of keys present; {} is <<>> *)
(*   an element reference   its index in self.elements, 0 for None         *)
(***************************************************************************)
EXTENDS Integers, Sequences, FiniteSets, TLC

VARIABLES
    pc,         \* position of main(): "start", "loop", "construct",
                \* "run_tests", "called", "except", "summary", "exit"
    i,          \* index into `tests` of the case the for loop is at
    file,       \* what is on disk at json_path for the current case
    all_passed, \* main(): all_passed
    tests_run,  \* main(): tests_run
    exit_code,  \* argument of sys.exit, -1 while main() is running
    log,        \* one entry per case main() is done with: what became of it ("missing",
                \* "load_error", "exception", "passed", "failed"), and whether its test object
                \* had errors and warnings then
    viewport,   \* LayoutTest.viewport of the current test object
    elements,   \* LayoutTest.elements of the current test object
    errors,     \* LayoutTest.errors of the current test object
    warnings,   \* LayoutTest.warnings of the current test object
    call,       \* the method run_tests has just called on the test object, with its arguments
    ret,        \* what that call returned
    page,       \* the browser page of one capture: its document, and whether the
                \* layout script has been evaluated on it
    layoutML,   \* capture script: the value of `layoutML`, what page.evaluate returned
    script      \* capture script: its position, arguments, the files it finds, its two
                \* server processes, page_dirs, all_tests_passed and its exit status

\* the state of the test runner and of its test object
runner == <<pc, i, file, all_passed, tests_run, exit_code, log,
            viewport, elements, errors, warnings, call, ret>>

\* the state of the capture script and of the page it captures
capture == <<page, layoutML, script>>

vars == <<runner, capture>>

(***************************************************************************)
(* Bounds of the model.                                                    *)
(***************************************************************************)
MaxElems == 2   \* elements in a snapshot
MaxEntries == 2 \* a test case that has accumulated this many entries makes no further call
NumTests == 2   \* length of the runner's `tests` list

(***************************************************************************)
(* Python primitives.                                                      *)
(***************************************************************************)
NONE == <<"<None>">>

EmptyDict == <<>>

\* dict.get(k, default)
Get(d, k, default) == IF k \in DOMAIN d THEN d[k] ELSE default

\* k in d
Has(d, k) == k \in DOMAIN d

\* bool(s) for an Optional[str]
Truthy(s) == s # NONE /\ s # <<>>

\* needle in hay, for two str
Contains(needle, hay) ==
    \E k \in 1..(Len(hay) + 1) :
        /\ k + Len(needle) - 1 <= Len(hay)
        /\ SubSeq(hay, k, k + Len(needle) - 1) = needle

\* float(s) == 0, and whether float(s) raises ValueError
FloatParses(s) == s \in {"0", "0.0", "1", "0.5"}

FloatIsZero(s) == s \in {"0", "0.0"}

\* a difference taken with its sign
Abs_Signed(n) == n

Abs(n) == IF n < 0 THEN -n ELSE n

DefaultViewportWidth == 1280

DefaultViewportHeight == 720

(***************************************************************************)
(* LayoutElement.from_dict                                                 *)
(***************************************************************************)
\* a loader without the fallback of visibleRect to rect
from_dict_NoFallback(data) ==
    [ tag         |-> Get(data, "tag", <<>>),
      type        |-> Get(data, "type", NONE),
      text        |-> Get(data, "text", <<>>),
      value       |-> Get(data, "value", <<>>),
      placeholder |-> Get(data, "placeholder", <<>>),
      rect        |-> Get(data, "rect", EmptyDict),
      visibleRect |-> Get(data, "visibleRect", EmptyDict),
      style       |-> Get(data, "style", EmptyDict),
      classes     |-> Get(data, "classes", <<>>),
      isContainer |-> Get(data, "isContainer", FALSE),
      visibility  |-> Get(data, "visibility", EmptyDict) ]

\* a loader whose data.get calls give no default for style, classes and visibility
from_dict_NoDefaults(data) ==
    [ tag         |-> Get(data, "tag", <<>>),
      type        |-> Get(data, "type", NONE),
      text        |-> Get(data, "text", <<>>),
      value       |-> Get(data, "value", <<>>),
      placeholder |-> Get(data, "placeholder", <<>>),
      rect        |-> Get(data, "rect", EmptyDict),
      visibleRect |-> Get(data, "visibleRect", Get(data, "rect", EmptyDict)),
      style       |-> Get(data, "style", NONE),
      classes     |-> Get(data, "classes", NONE),
      isContainer |-> Get(data, "isContainer", FALSE),
      visibility  |-> Get(data, "visibility", NONE) ]

from_dict(data) ==
    [ tag         |-> Get(data, "tag", <<>>),
      type        |-> Get(data, "type", NONE),
      text        |-> Get(data, "text", <<>>),
      value       |-> Get(data, "value", <<>>),
      placeholder |-> Get(data, "placeholder", <<>>),
      rect        |-> Get(data, "rect", EmptyDict),
      visibleRect |-> Get(data, "visibleRect", Get(data, "rect", EmptyDict)),
      style       |-> Get(data, "style", EmptyDict),
      classes     |-> Get(data, "classes", <<>>),
      isContainer |-> Get(data, "isContainer", FALSE),
      visibility  |-> Get(data, "visibility", EmptyDict) ]

(***************************************************************************)
(* The test object and the outcome of a method call on it.                 *)
(*   self     [viewport, elements, errors, warnings]                       *)
(*   outcome  [errors, warnings, raised, ret]: the two lists after the     *)
(*            call, whether the call raised, and what it returned          *)
(* A message is the f-string that builds it: fmt names the literal text,   *)
(* s1, s2, s3, n1, n2 and clips are the interpolated values in order, and      *)
(* message is the caller's message ('' adds no suffix).                    *)
(***************************************************************************)
Msg(fmt, s1, s2, s3, n1, n2, clips, message) ==
    [fmt |-> fmt, s1 |-> s1, s2 |-> s2, s3 |-> s3, n1 |-> n1, n2 |-> n2,
     clips |-> clips, message |-> message]

\* The value a call returns: None, a bool, an element, or a list of elements.
\* refs holds the positions in self.elements of the elements returned.
RetNone == [type |-> "NoneType", bool |-> FALSE, refs |-> <<>>]

RetBool(b) == [type |-> "bool", bool |-> b, refs |-> <<>>]

\* element 0 is None
RetElement(k) ==
    IF k = 0 THEN RetNone ELSE [type |-> "LayoutElement", bool |-> FALSE, refs |-> <<k>>]

RetList(refs) == [type |-> "list", bool |-> FALSE, refs |-> refs]

Start(self) ==
    [errors |-> self.errors, warnings |-> self.warnings, raised |-> FALSE, ret |-> RetNone]

\* an assignment in place of the append
AppendError_Overwrites(o, m) == IF o.raised THEN o ELSE [o EXCEPT !.errors = <<m>>]

\* self.errors.append(m), skipped when an earlier statement raised
AppendError(o, m) == IF o.raised THEN o ELSE [o EXCEPT !.errors = Append(@, m)]

\* self.warnings.append(m), skipped when an earlier statement raised
AppendWarning(o, m) == IF o.raised THEN o ELSE [o EXCEPT !.warnings = Append(@, m)]

\* an exception leaves the method
Raise(o) == [o EXCEPT !.raised = TRUE]

Return(o, r) == IF o.raised THEN o ELSE [o EXCEPT !.ret = r]

(***************************************************************************)
(* Element query engine.                                                   *)
(***************************************************************************)
\* a text filter compared for equality
Matches_TextEquals(element, tag, text, type) ==
    /\ ~(element.tag # tag)
    /\ ~(Truthy(text) /\ text # element.text)
    /\ ~(Truthy(type) /\ element.type # type)

\* the three `continue` tests of the loop body, negated
Matches(element, tag, text, type) ==
    /\ ~(element.tag # tag)
    /\ ~(Truthy(text) /\ ~Contains(text, element.text))
    /\ ~(Truthy(type) /\ element.type # type)

\* find_element: the loop from position k on; 0 is None
RECURSIVE FindFrom(_, _, _, _, _)
\* a search that looks at the tag alone
FindFrom_TagOnly(elems, k, tag, text, type) ==
    IF k > Len(elems) THEN 0
    ELSE IF elems[k].tag = tag THEN k
    ELSE FindFrom(elems, k + 1, tag, text, type)

FindFrom(elems, k, tag, text, type) ==
    IF k > Len(elems) THEN 0
    ELSE IF Matches(elems[k], tag, text, type) THEN k
    ELSE FindFrom(elems, k + 1, tag, text, type)

find_element(self, tag, text, type) == FindFrom(self.elements, 1, tag, text, type)

\* find_all_elements: the loop from position k on, with `results` so far
RECURSIVE FindAllFrom(_, _, _, _, _, _)
FindAllFrom(elems, k, results, tag, text, type) ==
    IF k > Len(elems) THEN results
    ELSE IF Matches(elems[k], tag, text, type)
         THEN FindAllFrom(elems, k + 1, Append(results, k), tag, text, type)
         ELSE FindAllFrom(elems, k + 1, results, tag, text, type)

find_all_elements(self, tag, text, type) ==
    FindAllFrom(self.elements, 1, <<>>, tag, text, type)

(***************************************************************************)
(* Assertion library.  Every operator takes the test object and the call's *)
(* arguments and yields the call's outcome.                                *)
(***************************************************************************)
\* the value a " with text '...'" / " with type '...'" part adds to the message, '' when the part is left out
Opt(s) == IF Truthy(s) THEN s ELSE <<>>

\* a missing element reported as a warning
assert_element_exists_Warns(self, tag, text, type, message) ==
    LET element == find_element(self, tag, text, type)
    IN  IF element = 0
        THEN Return(AppendWarning(Start(self),
                 Msg("Element not found", tag, Opt(text), Opt(type), 0, 0, <<>>, message)), RetNone)
        ELSE Return(Start(self), RetElement(element))

assert_element_exists(self, tag, text, type, message) ==
    LET element == find_element(self, tag, text, type)
    IN  IF element = 0
        THEN Return(AppendError(Start(self),
                 Msg("Element not found", tag, Opt(text), Opt(type), 0, 0, <<>>, message)), RetNone)
        ELSE Return(Start(self), RetElement(element))

assert_element_not_exists(self, tag, text, type, message) ==
    LET element == find_element(self, tag, text, type)
    IN  IF element # 0
        THEN AppendError(Start(self),
                 Msg("Unexpected element found", tag, Opt(text), Opt(type), 0, 0, <<>>, message))
        ELSE Start(self)

assert_element_visible(self, e, message) ==
    IF e = 0 THEN Start(self)
    ELSE
    LET element == self.elements[e]
        o0 == Start(self)
        o1 == IF Get(element.style, "display", "<None>") = "none"
              THEN AppendError(o0, Msg("is hidden (display: none)", element.tag, <<>>, <<>>, 0, 0, <<>>, message))
              ELSE o0
        o2 == IF Get(element.style, "visibility", "<None>") = "hidden"
              THEN AppendError(o1, Msg("is hidden (visibility: hidden)", element.tag, <<>>, <<>>, 0, 0, <<>>, message))
              ELSE o1
        opacity == Get(element.style, "opacity", "1")
        o3 == IF ~FloatParses(opacity) THEN Raise(o2)
              ELSE IF FloatIsZero(opacity)
              THEN AppendError(o2, Msg("is invisible (opacity: 0)", element.tag, <<>>, <<>>, 0, 0, <<>>, message))
              ELSE o2
        o4 == IF Get(element.rect, "x", 0) >= Get(self.viewport, "width", DefaultViewportWidth)
              THEN AppendError(o3, Msg("is outside viewport (x >= viewport width)", element.tag, <<>>, <<>>, 0, 0, <<>>, message))
              ELSE o3
        o5 == IF Get(element.rect, "y", 0) >= Get(self.viewport, "height", DefaultViewportHeight)
              THEN AppendError(o4, Msg("is outside viewport (y >= viewport height)", element.tag, <<>>, <<>>, 0, 0, <<>>, message))
              ELSE o4
    IN  o5

assert_button_text(self, expected_text, message) ==
    LET button == find_element(self, <<"button">>, NONE, <<"submit">>)
    IN  IF button = 0
        THEN AppendError(Start(self), Msg("Submit button not found", <<>>, <<>>, <<>>, 0, 0, <<>>, message))
        ELSE IF self.elements[button].text # expected_text
        THEN AppendError(Start(self),
                 Msg("Button text is, expected", self.elements[button].text, expected_text, <<>>, 0, 0, <<>>, message))
        ELSE Start(self)

\* rect[k] for every k of keys would raise KeyError
Missing(rect, keys) == \E k \in keys : ~Has(rect, k)

assert_element_alignment(self, e1, e2, alignment, tolerance) ==
    IF e1 = 0 \/ e2 = 0 THEN Start(self)
    ELSE
    LET elem1 == self.elements[e1]
        elem2 == self.elements[e2]
        r1 == elem1.rect
        r2 == elem2.rect
    IN  IF alignment = "left" THEN
            IF Missing(r1, {"x"}) \/ Missing(r2, {"x"}) THEN Raise(Start(self))
            ELSE LET diff == Abs(r1["x"] - r2["x"])
                 IN  IF diff > tolerance
                     THEN AppendError(Start(self), Msg("are not left-aligned", elem1.tag, elem2.tag, <<>>, diff, 0, <<>>, <<>>))
                     ELSE Start(self)
        ELSE IF alignment = "right" THEN
            IF Missing(r1, {"x", "width"}) \/ Missing(r2, {"x", "width"}) THEN Raise(Start(self))
            ELSE LET diff == Abs((r1["x"] + r1["width"]) - (r2["x"] + r2["width"]))
                 IN  IF diff > tolerance
                     THEN AppendError(Start(self), Msg("are not right-aligned", elem1.tag, elem2.tag, <<>>, diff, 0, <<>>, <<>>))
                     ELSE Start(self)
        ELSE IF alignment = "center" THEN
            IF Missing(r1, {"x", "width"}) \/ Missing(r2, {"x", "width"}) THEN Raise(Start(self))
            ELSE \* x + width / 2 is a float: twice the difference is kept, which is an integer
                 LET diff2 == Abs((2 * r1["x"] + r1["width"]) - (2 * r2["x"] + r2["width"]))
                 IN  IF diff2 > 2 * tolerance
                     THEN AppendError(Start(self), Msg("are not center-aligned", elem1.tag, elem2.tag, <<>>, diff2, 2, <<>>, <<>>))
                     ELSE Start(self)
        ELSE Start(self)

\* a message that interpolates nothing but the caller's message
Plain(fmt, message) == Msg(fmt, <<>>, <<>>, <<>>, 0, 0, <<>>, message)

\* a check whose warning is about missing disabled styles, not about hover states
assert_button_enabled_WarnsNoStyling(self, b, message) ==
    IF b = 0 THEN Start(self)
    ELSE
    LET classes == self.elements[b].classes
        o0 == Start(self)
        o1 == IF Contains(<<"cursor-not-allowed">>, classes)
                 /\ ~Contains(<<"disabled:", "cursor-not-allowed">>, classes)
              THEN AppendError(o0, Plain("Button is disabled (has cursor-not-allowed)", message))
              ELSE o0
        o2 == IF Contains(<<"bg-gray", "-600">>, classes)
                 /\ ~Contains(<<"disabled:", "bg-gray", "-600">>, classes)
              THEN AppendError(o1, Plain("Button appears disabled (has gray background)", message))
              ELSE o1
        o3 == IF ~Contains(<<"bg-gray", "-600">>, classes)
                 /\ ~Contains(<<"cursor-not-allowed">>, classes)
              THEN AppendWarning(o2, Plain("Button missing hover states (may not be interactive)", message))
              ELSE o2
    IN  o3

assert_button_enabled(self, b, message) ==
    IF b = 0 THEN Start(self)
    ELSE
    LET classes == self.elements[b].classes
        o0 == Start(self)
        o1 == IF Contains(<<"cursor-not-allowed">>, classes)
                 /\ ~Contains(<<"disabled:", "cursor-not-allowed">>, classes)
              THEN AppendError(o0, Plain("Button is disabled (has cursor-not-allowed)", message))
              ELSE o0
        o2 == IF Contains(<<"bg-gray", "-600">>, classes)
                 /\ ~Contains(<<"disabled:", "bg-gray", "-600">>, classes)
              THEN AppendError(o1, Plain("Button appears disabled (has gray background)", message))
              ELSE o1
        o3 == IF ~Contains(<<"hover:">>, classes)
              THEN AppendWarning(o2, Plain("Button missing hover states (may not be interactive)", message))
              ELSE o2
    IN  o3

\* a check that accepts the disabled: styles only
assert_button_disabled_StylesOnly(self, b, message) ==
    IF b = 0 THEN Start(self)
    ELSE IF \/ Contains(<<"disabled:", "bg-gray", "-600">>, self.elements[b].classes)
            \/ Contains(<<"disabled:", "cursor-not-allowed">>, self.elements[b].classes)
         THEN Start(self)
         ELSE AppendError(Start(self), Plain("Button missing any disabled styling", message))

assert_button_disabled(self, b, message) ==
    IF b = 0 THEN Start(self)
    ELSE
    LET classes == self.elements[b].classes
        has_disabled_appearance ==
            \/ /\ Contains(<<"bg-gray", "-600">>, classes)
               /\ ~Contains(<<"disabled:", "bg-gray", "-600">>, classes)
            \/ /\ Contains(<<"cursor-not-allowed">>, classes)
               /\ ~Contains(<<"disabled:", "cursor-not-allowed">>, classes)
        has_disabled_styles ==
            \/ Contains(<<"disabled:", "bg-gray", "-600">>, classes)
            \/ Contains(<<"disabled:", "cursor-not-allowed">>, classes)
    IN  IF ~has_disabled_appearance
        THEN IF has_disabled_styles
             THEN Start(self)
             ELSE AppendError(Start(self), Plain("Button missing any disabled styling", message))
        ELSE Start(self)

assert_has_disabled_styles(self, b, message) ==
    IF b = 0 THEN Start(self)
    ELSE IF ~Contains(<<"disabled:", "bg-gray">>, self.elements[b].classes)
         THEN AppendWarning(Start(self), Plain("Button missing disabled state styles (disabled:bg-gray-*)", message))
         ELSE Start(self)

\* missing error styling reported as an error
assert_has_error_styling_AsError(self, e, message) ==
    IF e = 0 THEN Start(self)
    ELSE IF \/ Contains(<<"border-red">>, self.elements[e].classes)
            \/ Contains(<<"text-red">>, self.elements[e].classes)
            \/ Contains(<<"ring-red">>, self.elements[e].classes)
         THEN Start(self)
         ELSE AppendError(Start(self), Plain("Element missing error styling", message))

assert_has_error_styling(self, e, message) ==
    IF e = 0 THEN Start(self)
    ELSE
    LET classes == self.elements[e].classes
        has_error == \/ Contains(<<"border-red">>, classes)
                     \/ Contains(<<"text-red">>, classes)
                     \/ Contains(<<"ring-red">>, classes)
    IN  IF ~has_error
        THEN AppendWarning(Start(self), Plain("Element missing error styling", message))
        ELSE Start(self)

assert_in_viewport(self, e, message) ==
    IF e = 0 THEN Start(self)
    ELSE
    LET element == self.elements[e]
        rect == element.rect
        viewport_width == Get(self.viewport, "width", DefaultViewportWidth)
        viewport_height == Get(self.viewport, "height", DefaultViewportHeight)
        o0 == Start(self)
        o1 == IF Missing(rect, {"x"}) THEN Raise(o0)
              ELSE IF rect["x"] < 0
              THEN AppendError(o0, Msg("Element extends beyond left edge", <<>>, <<>>, <<>>, rect["x"], 0, <<>>, message))
              ELSE o0
        o2 == IF o1.raised THEN o1
              ELSE IF Missing(rect, {"x", "width"}) THEN Raise(o1)
              ELSE IF rect["x"] + rect["width"] > viewport_width
              THEN AppendError(o1, Msg("Element extends beyond right edge", <<>>, <<>>, <<>>,
                                       rect["x"] + rect["width"], viewport_width, <<>>, message))
              ELSE o1
        o3 == IF o2.raised THEN o2
              ELSE IF Missing(rect, {"y"}) THEN Raise(o2)
              ELSE IF rect["y"] < 0
              THEN AppendError(o2, Msg("Element extends beyond top edge", <<>>, <<>>, <<>>, rect["y"], 0, <<>>, message))
              ELSE o2
        o4 == IF o3.raised THEN o3
              ELSE IF Missing(rect, {"y", "height"}) THEN Raise(o3)
              ELSE IF rect["y"] + rect["height"] > viewport_height
              THEN AppendError(o3, Msg("Element extends beyond bottom edge", <<>>, <<>>, <<>>,
                                       rect["y"] + rect["height"], viewport_height, <<>>, message))
              ELSE o3
    IN  o4

\* a reader of the visibility dict that sees no flag set
Flag_NeverSet(visibility, k) == FALSE

\* a check that goes on to the clipping checks when the element has no visibility info
assert_fully_visible_NoFallback(self, e, message) ==
    IF e = 0 THEN Start(self)
    ELSE
    LET element == self.elements[e]
        visibility == element.visibility
        visible_height == Get(visibility, "visibleHeight", Get(element.visibleRect, "height", 0))
        original_height == Get(visibility, "originalHeight", Get(element.rect, "height", 0))
    IN  IF Get(visibility, "isClipped", FALSE)
        THEN AppendError(Start(self),
                 Msg("element is clipped by parent container", element.tag, <<>>, <<>>,
                     0, 0, <<"unknown sides">>, message))
        ELSE IF visible_height < original_height
        THEN AppendError(Start(self),
                 Msg("element is px cut off", element.tag, <<>>, <<>>,
                     original_height - visible_height, visible_height, <<>>, message))
        ELSE Start(self)

\* a check that stops after the clip error
assert_fully_visible_OneError(self, e, message) ==
    IF e = 0 THEN Start(self)
    ELSE
    LET element == self.elements[e]
        visibility == element.visibility
    IN  IF DOMAIN visibility = {}
        THEN assert_in_viewport(self, e, message)
        ELSE
        LET clips == (IF Get(visibility, "clippedTop", FALSE) THEN <<"top">> ELSE <<>>)
                     \o (IF Get(visibility, "clippedBottom", FALSE) THEN <<"bottom">> ELSE <<>>)
                     \o (IF Get(visibility, "clippedLeft", FALSE) THEN <<"left">> ELSE <<>>)
                     \o (IF Get(visibility, "clippedRight", FALSE) THEN <<"right">> ELSE <<>>)
            visible_height == Get(visibility, "visibleHeight", Get(element.visibleRect, "height", 0))
            original_height == Get(visibility, "originalHeight", Get(element.rect, "height", 0))
        IN  IF Get(visibility, "isClipped", FALSE)
            THEN AppendError(Start(self),
                     Msg("element is clipped by parent container", element.tag, <<>>, <<>>,
                         original_height - visible_height, visible_height,
                         IF clips # <<>> THEN clips ELSE <<"unknown sides">>, message))
            ELSE IF visible_height < original_height
            THEN AppendError(Start(self),
                     Msg("element is px cut off", element.tag, <<>>, <<>>,
                         original_height - visible_height, visible_height, <<>>, message))
            ELSE Start(self)

\* bool(v) for a value of the visibility dict (a JSON boolean)
Flag(visibility, k) == Get(visibility, k, FALSE)

assert_fully_visible(self, e, message) ==
    IF e = 0 THEN Start(self)
    ELSE
    LET element == self.elements[e]
        visibility == element.visibility
    IN  IF DOMAIN visibility = {}
        THEN assert_in_viewport(self, e, message)
        ELSE
        LET clips == (IF Flag(visibility, "clippedTop") THEN <<"top">> ELSE <<>>)
                     \o (IF Flag(visibility, "clippedBottom") THEN <<"bottom">> ELSE <<>>)
                     \o (IF Flag(visibility, "clippedLeft") THEN <<"left">> ELSE <<>>)
                     \o (IF Flag(visibility, "clippedRight") THEN <<"right">> ELSE <<>>)
            clip_info == IF clips # <<>> THEN clips ELSE <<"unknown sides">>
            o0 == Start(self)
            o1 == IF Flag(visibility, "isClipped")
                  THEN AppendError(o0, Msg("element is clipped by parent container", element.tag, <<>>, <<>>,
                                           0, 0, clip_info, message))
                  ELSE o0
            visible_height == Get(visibility, "visibleHeight", Get(element.visibleRect, "height", 0))
            original_height == Get(visibility, "originalHeight", Get(element.rect, "height", 0))
            o2 == IF visible_height < original_height
                  THEN AppendError(o1, Msg("element is px cut off", element.tag, <<>>, <<>>,
                                           original_height - visible_height, visible_height,
                                           <<>>, message))
                  ELSE o1
        IN  o2

assert_has_transition_classes(self, e, message) ==
    IF e = 0 THEN Start(self)
    ELSE
    LET classes == self.elements[e].classes
        has_transition == \/ Contains(<<"transition">>, classes)
                          \/ Contains(<<"duration-">>, classes)
    IN  IF ~has_transition
        THEN AppendWarning(Start(self), Plain("Element missing transition/animation classes", message))
        ELSE Start(self)

(***************************************************************************)
(* LayoutTest.report: the value returned.                                  *)
(***************************************************************************)
\* a report that warnings fail
report_WarningsFail(self) == self.errors = <<>> /\ self.warnings = <<>>

report(self) ==
    IF self.errors = <<>> /\ self.warnings = <<>> THEN TRUE
    ELSE Len(self.errors) = 0

(***************************************************************************)
(* Inputs: the element records a snapshot file may hold.  A record is the  *)
(* JSON object of one element; a key the record omits is not in its        *)
(* DOMAIN.                                                                  *)
(***************************************************************************)
Rect(x, y, w, h) == [x |-> x, y |-> y, width |-> w, height |-> h]

\* the e-mail input of a page: every key present, not clipped
RecEmail ==
    [ tag |-> <<"input">>, type |-> <<"email">>, text |-> <<>>, value |-> <<>>,
      placeholder |-> <<"you@example.com">>,
      rect |-> Rect(460, 200, 360, 40), visibleRect |-> Rect(460, 200, 360, 40),
      style |-> [display |-> "block", visibility |-> "visible", opacity |-> "1"],
      classes |-> <<"disabled:", "bg-gray", "-600", " ", "hover:", "bg-green", "-600", " ", "transition">>,
      isContainer |-> FALSE,
      visibility |-> [isFullyVisible |-> TRUE, isClipped |-> FALSE, clippedTop |-> FALSE,
                      clippedBottom |-> FALSE, clippedLeft |-> FALSE, clippedRight |-> FALSE,
                      visibleHeight |-> 40, originalHeight |-> 40] ]

\* a submit button that looks disabled; no visibleRect, style or visibility
RecButton ==
    [ tag |-> <<"button">>, type |-> <<"submit">>, text |-> <<"Continue">>,
      rect |-> Rect(460, 260, 400, 40),
      classes |-> <<"bg-gray", "-600">> ]

\* an input clipped at the bottom by an ancestor, transparent, past the bottom edge of a
\* 1280x720 viewport and outside an 800x600 one
RecClipped ==
    [ tag |-> <<"input">>, type |-> <<"password">>, text |-> <<"Create", " ", "Password">>,
      rect |-> Rect(900, 700, 360, 80), visibleRect |-> Rect(900, 700, 360, 20),
      style |-> [display |-> "block", opacity |-> "0"],
      classes |-> <<"cursor-not-allowed", " ", "disabled:", "cursor-not-allowed", " ", "border-red", "-500">>,
      visibility |-> [isFullyVisible |-> FALSE, isClipped |-> TRUE, clippedTop |-> FALSE,
                      clippedBottom |-> TRUE, clippedLeft |-> FALSE, clippedRight |-> FALSE,
                      visibleHeight |-> 20, originalHeight |-> 80] ]

\* a record with nothing but its tag
RecBare == [ tag |-> <<"button">> ]

\* a hidden element left of and below the viewport: its rect lacks width, its opacity is
\* not a number, its only gray background is a hover style, and it is marked clipped
\* with no edge named
RecOdd ==
    [ tag |-> <<"button">>, type |-> <<"button">>, text |-> <<"Change">>,
      rect |-> [x |-> -5, y |-> 1300, height |-> 10],
      style |-> [display |-> "none", visibility |-> "hidden", opacity |-> ""],
      classes |-> <<"hover:", "bg-gray", "-600">>,
      visibility |-> [isClipped |-> TRUE] ]

\* a label as the capture script writes one: its type is null, it has a hover style and
\* nothing that looks disabled
RecLabel ==
    [ tag |-> <<"label">>, type |-> NONE, text |-> <<"Email">>, value |-> <<>>,
      placeholder |-> <<>>,
      rect |-> Rect(460, 170, 360, 20), visibleRect |-> Rect(460, 170, 360, 20),
      style |-> [display |-> "block", visibility |-> "visible", opacity |-> "1"],
      classes |-> <<"hover:", "bg-green", "-600">>,
      isContainer |-> FALSE,
      visibility |-> [isFullyVisible |-> TRUE, isClipped |-> FALSE, clippedTop |-> FALSE,
                      clippedBottom |-> FALSE, clippedLeft |-> FALSE, clippedRight |-> FALSE,
                      visibleHeight |-> 20, originalHeight |-> 20] ]

Records == {RecEmail, RecButton, RecClipped, RecBare, RecOdd, RecLabel}

RECURSIVE SeqsUpTo(_, _)
SeqsUpTo(S, n) ==
    IF n = 0 THEN {<<>>}
    ELSE LET shorter == SeqsUpTo(S, n - 1)
         IN  shorter \cup {Append(q, x) : q \in shorter, x \in S}

ElementLists == SeqsUpTo(Records, MaxElems)

Viewports == {[width |-> 800, height |-> 600]}

(***************************************************************************)
(* What may be at json_path.  kind is "missing" (no file), "malformed"     *)
(* (not JSON), or "json"; a JSON file's top-level value is an "object" or  *)
(* an "array", and data is the object (a dict with any of the keys         *)
(* viewport and elements).                                                 *)
(***************************************************************************)
File(kind, top, data) == [kind |-> kind, top |-> top, data |-> data]

MissingFile == File("missing", "none", EmptyDict)

Snapshots ==
    {[elements |-> es] : es \in ElementLists}
    \cup {[viewport |-> v, elements |-> es] : v \in Viewports, es \in ElementLists}
    \cup {[viewport |-> v] : v \in Viewports}
    \cup {EmptyDict}

Files ==
    {File("malformed", "none", EmptyDict), File("json", "array", EmptyDict)}
    \cup {File("json", "object", d) : d \in Snapshots}

\* the files the runner's cases are tried on
RunnerFiles ==
    {File("malformed", "none", EmptyDict), File("json", "array", EmptyDict),
     File("json", "object", EmptyDict),
     File("json", "object", [elements |-> <<RecBare>>]),
     File("json", "object", [viewport |-> [width |-> 800, height |-> 600], elements |-> <<RecEmail>>])}

(***************************************************************************)
(* Arguments the test cases pass.                                          *)
(***************************************************************************)
(***************************************************************************)
(* capture-screenshots.py: the layout script evaluated in the page.        *)
(* A document is the sequence of its nodes in document order; a node names *)
(* its parentElement by index, 0 for none.  Lengths of the page are kept   *)
(* in quarter pixels, so that Math.round has fractions to round.           *)
(***************************************************************************)
MaxNodes == 3   \* nodes of a document

Max(a, b) == IF a >= b THEN a ELSE b

Min(a, b) == IF a <= b THEN a ELSE b

\* Math.round of a length, in pixels: halves round up
MathRound(v) == (v + 2) \div 4

\* window.innerWidth, window.innerHeight
Window == [innerWidth |-> 1280, innerHeight |-> 720]

\* element.getBoundingClientRect()
getBoundingClientRect(node) ==
    [ x |-> node.box.left, y |-> node.box.top,
      top |-> node.box.top, bottom |-> node.box.top + node.box.height,
      left |-> node.box.left, right |-> node.box.left + node.box.width,
      width |-> node.box.width, height |-> node.box.height ]

Edges(b) == [top |-> b.top, bottom |-> b.bottom, left |-> b.left, right |-> b.right]

\* the test getVisibleBounds makes on an ancestor's computed style, and the element
\* collection on the node's own
IsClippingStyle_AnyOverflow(style) == TRUE

IsClippingStyle(style) ==
    \/ style.overflow = "hidden"
    \/ style.overflowX = "hidden"
    \/ style.overflowY = "hidden"
    \/ style.overflow = "clip"

\* Clip bounds to parent
ClipToParent_ClippedAxes(bounds, parentBounds, parentStyle) ==
    LET clipsX == parentStyle.overflowX \in {"hidden", "clip"}
        clipsY == parentStyle.overflowY \in {"hidden", "clip"}
    IN  [ top |-> IF clipsY THEN Max(bounds.top, parentBounds.top) ELSE bounds.top,
          bottom |-> IF clipsY THEN Min(bounds.bottom, parentBounds.bottom) ELSE bounds.bottom,
          left |-> IF clipsX THEN Max(bounds.left, parentBounds.left) ELSE bounds.left,
          right |-> IF clipsX THEN Min(bounds.right, parentBounds.right) ELSE bounds.right ]

ClipToParent(bounds, parentBounds, parentStyle) ==
    [ top |-> Max(bounds.top, parentBounds.top),
      bottom |-> Min(bounds.bottom, parentBounds.bottom),
      left |-> Max(bounds.left, parentBounds.left),
      right |-> Min(bounds.right, parentBounds.right) ]

\* the while (parent) loop of getVisibleBounds, from ancestor `parent` upwards
RECURSIVE WalkUp(_, _, _, _)
WalkUp(document, parent, bounds, hasClipping) ==
    IF parent = 0 THEN [bounds |-> bounds, hasClipping |-> hasClipping]
    ELSE
    LET parentBounds == getBoundingClientRect(document[parent])
        parentStyle == document[parent].style
    IN  IF IsClippingStyle(parentStyle)
        THEN LET newBounds == ClipToParent(bounds, parentBounds, parentStyle)
             IN  WalkUp(document, document[parent].parent, newBounds,
                        hasClipping \/ newBounds # bounds)
        ELSE WalkUp(document, document[parent].parent, bounds, hasClipping)

\* a walk that reports clipping only when it narrowed the right edge
getVisibleBounds_ClippedByRight(document, n) ==
    LET originalBounds == getBoundingClientRect(document[n])
        walk == WalkUp(document, document[n].parent, Edges(originalBounds), FALSE)
        bounds == walk.bounds
        visibleWidth == Max(0, bounds.right - bounds.left)
        visibleHeight == Max(0, bounds.bottom - bounds.top)
    IN  [ isVisible |-> visibleHeight > 0 /\ visibleWidth > 0,
          visibleBounds |-> bounds,
          originalBounds |-> originalBounds,
          visibleWidth |-> visibleWidth,
          visibleHeight |-> visibleHeight,
          isClipped |-> originalBounds.right # bounds.right,
          clippedTop |-> originalBounds.top < bounds.top,
          clippedBottom |-> originalBounds.bottom > bounds.bottom,
          clippedLeft |-> originalBounds.left < bounds.left,
          clippedRight |-> originalBounds.right > bounds.right ]

getVisibleBounds(document, n) ==
    LET originalBounds == getBoundingClientRect(document[n])
        walk == WalkUp(document, document[n].parent, Edges(originalBounds), FALSE)
        bounds == walk.bounds
        visibleWidth == Max(0, bounds.right - bounds.left)
        visibleHeight == Max(0, bounds.bottom - bounds.top)
    IN  [ isVisible |-> visibleHeight > 0 /\ visibleWidth > 0,
          visibleBounds |-> bounds,
          originalBounds |-> originalBounds,
          visibleWidth |-> visibleWidth,
          visibleHeight |-> visibleHeight,
          isClipped |-> \/ walk.hasClipping
                        \/ originalBounds.bottom # bounds.bottom
                        \/ originalBounds.top # bounds.top
                        \/ originalBounds.left # bounds.left
                        \/ originalBounds.right # bounds.right,
          clippedTop |-> originalBounds.top < bounds.top,
          clippedBottom |-> originalBounds.bottom > bounds.bottom,
          clippedLeft |-> originalBounds.left < bounds.left,
          clippedRight |-> originalBounds.right > bounds.right ]

\* parseFloat(opacity) === 0, for a computed opacity
ParseFloatIsZero(opacity) == opacity \in {"0", "0.0"}

\* the opacity loop of isElementVisible, from node `currentEl` upwards
RECURSIVE OpaqueChain(_, _)
OpaqueChain(document, currentEl) ==
    IF currentEl = 0 THEN TRUE
    ELSE IF ParseFloatIsZero(document[currentEl].style.opacity) THEN FALSE
    ELSE OpaqueChain(document, document[currentEl].parent)

isElementVisible(document, n) ==
    LET style == document[n].style
    IN  IF style.display = "none" \/ style.visibility = "hidden" THEN FALSE
        ELSE OpaqueChain(document, n)

SkippedTags == {"script", "style", "meta", "head", "html", "body"}

\* the text the collection keeps for a node: its text nodes, or for an input its value
\* or placeholder
CollectedText(node) ==
    IF node.tag \in {"input", "textarea"}
    THEN IF node.value # <<>> THEN node.value
         ELSE IF node.placeholder # <<>> THEN node.placeholder
         ELSE node.text
    ELSE node.text

\* whether the forEach callback pushes a record for node n
Collected(document, n) ==
    LET el == document[n]
    IN  /\ el.tag \notin SkippedTags
        /\ isElementVisible(document, n)
        /\ getVisibleBounds(document, n).isVisible
        /\ \/ CollectedText(el) # <<>>
           \/ el.value # <<>>
           \/ el.placeholder # <<>>
           \/ IsClippingStyle(el.style)

\* the record elements.push receives for node n; visibleHeight and originalHeight are
\* not rounded and stay in quarter pixels; the texts of the documents are shorter than
\* the 100 characters text.substring keeps
ElementRecord(document, n) ==
    LET el == document[n]
        rect == getBoundingClientRect(el)
        style == el.style
        visibilityInfo == getVisibleBounds(document, n)
    IN  [ tag |-> <<el.tag>>,
          type |-> el.type,
          text |-> CollectedText(el),
          value |-> el.value,
          placeholder |-> el.placeholder,
          rect |-> [ x |-> MathRound(rect.x), y |-> MathRound(rect.y),
                     width |-> MathRound(rect.width), height |-> MathRound(rect.height) ],
          visibleRect |-> [ x |-> MathRound(visibilityInfo.visibleBounds.left),
                            y |-> MathRound(visibilityInfo.visibleBounds.top),
                            width |-> MathRound(visibilityInfo.visibleWidth),
                            height |-> MathRound(visibilityInfo.visibleHeight) ],
          style |-> [ display |-> style.display, opacity |-> style.opacity,
                      visibility |-> style.visibility, position |-> style.position,
                      zIndex |-> style.zIndex, overflow |-> style.overflow,
                      overflowX |-> style.overflowX, overflowY |-> style.overflowY ],
          classes |-> el.className,
          isContainer |-> IsClippingStyle(style),
          visibility |-> [ isFullyVisible |-> ~visibilityInfo.isClipped,
                           isClipped |-> visibilityInfo.isClipped,
                           clippedTop |-> visibilityInfo.clippedTop,
                           clippedBottom |-> visibilityInfo.clippedBottom,
                           clippedLeft |-> visibilityInfo.clippedLeft,
                           clippedRight |-> visibilityInfo.clippedRight,
                           visibleHeight |-> visibilityInfo.visibleHeight,
                           originalHeight |-> visibilityInfo.originalBounds.height ] ]

\* elements.filter(e => e.visibleRect.width > 0 && e.visibleRect.height > 0)
KeptByFilter(e) == e.visibleRect.width > 0 /\ e.visibleRect.height > 0

\* whether node n is in the element list page.evaluate returns
Emitted(document, n) == Collected(document, n) /\ KeptByFilter(ElementRecord(document, n))

\* the records of nodes n..Len(document) that are emitted, in document order
RECURSIVE EmittedFrom(_, _)
EmittedFrom(document, n) ==
    IF n > Len(document) THEN <<>>
    ELSE (IF Emitted(document, n) THEN <<ElementRecord(document, n)>> ELSE <<>>)
         \o EmittedFrom(document, n + 1)

\* what page.evaluate returns
EvaluateLayoutML(document) ==
    [ viewport |-> [width |-> Window.innerWidth, height |-> Window.innerHeight],
      elements |-> EmittedFrom(document, 1) ]

(***************************************************************************)
(* Inputs: the documents a page may render.                                *)
(***************************************************************************)
\* a box of the page, in quarter pixels
Box(left, top, width, height) == [left |-> left, top |-> top, width |-> width, height |-> height]

\* 10px by 10px at the origin; a box that starts half a pixel further right and is 5px
\* high; one that overlaps the first by a quarter pixel on the right; one away from it
Boxes == {Box(0, 0, 40, 40), Box(2, 0, 38, 20), Box(39, 0, 40, 40), Box(80, 0, 40, 40)}

\* computed overflow-x and overflow-y with the shorthand they serialise to
Overflows ==
    { [overflow |-> "visible", overflowX |-> "visible", overflowY |-> "visible"],
      [overflow |-> "hidden", overflowX |-> "hidden", overflowY |-> "hidden"],
      [overflow |-> "hidden auto", overflowX |-> "hidden", overflowY |-> "auto"],
      [overflow |-> "clip visible", overflowX |-> "clip", overflowY |-> "visible"],
      [overflow |-> "clip", overflowX |-> "clip", overflowY |-> "clip"] }

\* what a node is apart from its box and overflow: a bare div, a label with text, an
\* e-mail input with a placeholder, a transparent div with text
Contents ==
    { [ tag |-> "div", type |-> NONE, text |-> <<>>, value |-> <<>>, placeholder |-> <<>>,
        className |-> <<>>, display |-> "block", visibility |-> "visible", opacity |-> "1" ],
      [ tag |-> "label", type |-> NONE, text |-> <<"Email">>, value |-> <<>>,
        placeholder |-> <<>>, className |-> <<"hover:", "bg-green", "-600">>,
        display |-> "block", visibility |-> "visible", opacity |-> "1" ],
      [ tag |-> "input", type |-> <<"email">>, text |-> <<>>, value |-> <<>>,
        placeholder |-> <<"you@example.com">>, className |-> <<"transition">>,
        display |-> "block", visibility |-> "visible", opacity |-> "1" ],
      [ tag |-> "div", type |-> NONE, text |-> <<"Saved">>, value |-> <<>>,
        placeholder |-> <<>>, className |-> <<>>,
        display |-> "block", visibility |-> "visible", opacity |-> "0" ] }

BareDiv == CHOOSE c \in Contents : c.tag = "div" /\ c.text = <<>>

Node(parent, c, box, o) ==
    [ parent |-> parent, tag |-> c.tag, type |-> c.type, text |-> c.text, value |-> c.value,
      placeholder |-> c.placeholder, className |-> c.className, box |-> box,
      style |-> [ display |-> c.display, visibility |-> c.visibility, opacity |-> c.opacity,
                  position |-> "static", zIndex |-> "auto",
                  overflow |-> o.overflow, overflowX |-> o.overflowX,
                  overflowY |-> o.overflowY ] ]

\* documents of MaxNodes nodes under one bare div: every later node has an earlier one as
\* its parent
RECURSIVE DocumentsOf(_)
DocumentsOf(n) ==
    IF n = 1 THEN {<<Node(0, BareDiv, box, o)>> : box \in Boxes, o \in Overflows}
    ELSE {Append(d, Node(parent, c, box, o)) :
             d \in DocumentsOf(n - 1), parent \in (n - 2)..(n - 1) \ {0},
             c \in Contents, box \in Boxes, o \in Overflows}

NoDocument == <<>>

NoLayoutML == [viewport |-> [width |-> 0, height |-> 0], elements |-> <<>>]

IdlePage == [document |-> NoDocument, evaluated |-> FALSE]

(***************************************************************************)
(* capture-screenshots.py: the script itself.                              *)
(***************************************************************************)
\* the directories script_dir may hold, in the order os.listdir yields them
Pages == <<"Auth.razor", "Home.razor">>

\* --page: "" when the option is not given
PageArgs == {"", "Auth.razor", "Gone.razor"}

\* what script_dir holds: whether screenshots.json exists, the pages that are
\* directories, those of them with <page>/<page>.json, those with <page>/<page>.test.py
FileSystems ==
    { [legacy |-> l, dirs |-> d, configs |-> c, tests |-> t] :
        l \in BOOLEAN, d \in SUBSET {"Auth.razor", "Home.razor"},
        c \in SUBSET {"Auth.razor", "Home.razor"}, t \in SUBSET {"Auth.razor", "Home.razor"} }

ScriptAt(position, page_arg, test_only, fs) ==
    [ pc |-> position, args |-> [page |-> page_arg, test_only |-> test_only], fs |-> fs,
      autohost_proc |-> "none", autoweb_proc |-> "none",
      page_dirs |-> <<>>, screenshots_to_capture |-> 0, tested |-> 0,
      all_tests_passed |-> TRUE, exit_code |-> -1 ]

IdleScript ==
    ScriptAt("idle", "", FALSE, [legacy |-> FALSE, dirs |-> {}, configs |-> {}, tests |-> {}])

\* (tag, text, type) of a query; NONE is a filter left out, <<>> the empty string
Queries ==
    { <<<<"input">>, NONE, NONE>>,
      <<<<"input">>, NONE, <<"email">>>>,
      <<<<"input">>, <<"Password">>, NONE>>,
      <<<<"input">>, <<>>, <<>>>>,
      <<<<"button">>, <<"Continue">>, <<"submit">>>>,
      <<<<"button">>, NONE, NONE>>,
      <<<<"label">>, NONE, NONE>> }

Messages == {<<>>, <<"m">>}

Alignments == {"left", "right", "center", "top"}

Tolerances == {1, 40}

\* The arguments of a call, by parameter name; a parameter the method does not
\* have keeps the value below.  `element` is element / button / elem1, and
\* `text` is also expected_text.
NoArgs ==
    [tag |-> NONE, text |-> NONE, type |-> NONE, message |-> <<>>,
     element |-> 0, element2 |-> 0, alignment |-> "", tolerance |-> 0]

QueryArgs(q, message) ==
    [NoArgs EXCEPT !.tag = q[1], !.text = q[2], !.type = q[3], !.message = message]

ElementArgs(e, message) == [NoArgs EXCEPT !.element = e, !.message = message]

\* an element of the test object, or None
Refs == 0..Len(elements)

Self == [viewport |-> viewport, elements |-> elements, errors |-> errors, warnings |-> warnings]

(***************************************************************************)
(* LayoutTest.__init__                                                     *)
(***************************************************************************)
\* json.load(f) raises on a file that is not JSON
JsonLoadRaises(f) == f.kind = "malformed"

\* a loader that rejects an object without an `elements` array
DataGetRaises_RequireElements(f) == f.top # "object" \/ ~Has(f.data, "elements")

\* self.data.get raises AttributeError when the top-level value is a list
DataGetRaises(f) == f.top # "object"

InitRaises(f) == JsonLoadRaises(f) \/ DataGetRaises(f)

InitViewport(f) == Get(f.data, "viewport", EmptyDict)

InitElements(f) ==
    LET raw == Get(f.data, "elements", <<>>)
    IN  [k \in 1..Len(raw) |-> from_dict(raw[k])]

Construct ==
    /\ pc = "construct"
    /\ errors' = <<>>
    /\ warnings' = <<>>
    /\ call' = [op |-> "__init__", args |-> NoArgs]
    /\ ret' = RetNone
    /\ IF InitRaises(file)
       THEN /\ pc' = "except"
            /\ UNCHANGED <<viewport, elements>>
       ELSE /\ viewport' = InitViewport(file)
            /\ elements' = InitElements(file)
            /\ pc' = "run_tests"
    /\ UNCHANGED <<capture, i, file, all_passed, tests_run, exit_code, log>>

(***************************************************************************)
(* run_tests: a test case calls the methods of its test object one after   *)
(* the other; a call that raises leaves run_tests.                         *)
(***************************************************************************)
Method(op, args, o) ==
    /\ pc = "run_tests"
    /\ Len(errors) + Len(warnings) < MaxEntries
    /\ call' = [op |-> op, args |-> args]
    /\ errors' = o.errors
    /\ warnings' = o.warnings
    /\ ret' = o.ret
    /\ pc' = IF o.raised THEN "except" ELSE "called"
    /\ UNCHANGED <<capture, i, file, all_passed, tests_run, exit_code, log, viewport, elements>>

FindElement ==
    \E q \in Queries :
        Method("find_element", QueryArgs(q, <<>>),
               Return(Start(Self), RetElement(find_element(Self, q[1], q[2], q[3]))))

FindAllElements ==
    \E q \in Queries :
        Method("find_all_elements", QueryArgs(q, <<>>),
               Return(Start(Self), RetList(find_all_elements(Self, q[1], q[2], q[3]))))

AssertElementExists ==
    \E q \in Queries, message \in Messages :
        Method("assert_element_exists", QueryArgs(q, message),
               assert_element_exists(Self, q[1], q[2], q[3], message))

AssertElementNotExists ==
    \E q \in Queries, message \in Messages :
        Method("assert_element_not_exists", QueryArgs(q, message),
               assert_element_not_exists(Self, q[1], q[2], q[3], message))

AssertElementVisible ==
    \E e \in Refs, message \in Messages :
        Method("assert_element_visible", ElementArgs(e, message), assert_element_visible(Self, e, message))

AssertButtonText ==
    \E expected_text \in {<<"Continue">>, <<"Sign", " ", "In">>}, message \in Messages :
        Method("assert_button_text", [NoArgs EXCEPT !.text = expected_text, !.message = message],
               assert_button_text(Self, expected_text, message))

AssertElementAlignment ==
    \E e1 \in Refs, e2 \in Refs, alignment \in Alignments, tolerance \in Tolerances :
        Method("assert_element_alignment", [NoArgs EXCEPT !.element = e1, !.element2 = e2, !.alignment = alignment,
                               !.tolerance = tolerance],
               assert_element_alignment(Self, e1, e2, alignment, tolerance))

AssertButtonEnabled ==
    \E b \in Refs, message \in Messages :
        Method("assert_button_enabled", ElementArgs(b, message), assert_button_enabled(Self, b, message))

AssertButtonDisabled ==
    \E b \in Refs, message \in Messages :
        Method("assert_button_disabled", ElementArgs(b, message), assert_button_disabled(Self, b, message))

AssertHasDisabledStyles ==
    \E b \in Refs, message \in Messages :
        Method("assert_has_disabled_styles", ElementArgs(b, message),
               assert_has_disabled_styles(Self, b, message))

AssertHasErrorStyling ==
    \E e \in Refs, message \in Messages :
        Method("assert_has_error_styling", ElementArgs(e, message), assert_has_error_styling(Self, e, message))

AssertInViewport ==
    \E e \in Refs, message \in Messages :
        Method("assert_in_viewport", ElementArgs(e, message), assert_in_viewport(Self, e, message))

AssertFullyVisible ==
    \E e \in Refs, message \in Messages :
        Method("assert_fully_visible", ElementArgs(e, message), assert_fully_visible(Self, e, message))

AssertHasTransitionClasses ==
    \E e \in Refs, message \in Messages :
        Method("assert_has_transition_classes", ElementArgs(e, message),
               assert_has_transition_classes(Self, e, message))

\* a check a test case makes itself: self.errors.append(...) in run_tests
InlineError ==
    Method("errors.append", NoArgs, AppendError(Start(Self), Plain("inline check", <<>>)))

\* self.warnings.append(...) in run_tests
InlineWarning ==
    Method("warnings.append", NoArgs, AppendWarning(Start(Self), Plain("inline check", <<>>)))

(***************************************************************************)
(* main(): the runner.                                                     *)
(***************************************************************************)
Result(outcome) == [outcome |-> outcome, errors |-> errors # <<>>, warnings |-> warnings # <<>>]

\* run_tests goes on to its next statement
Continue ==
    /\ pc = "called"
    /\ pc' = "run_tests"
    /\ call' = [op |-> "none", args |-> NoArgs]
    /\ ret' = RetNone
    /\ UNCHANGED <<capture, i, file, all_passed, tests_run, exit_code, log, viewport, elements,
                   errors, warnings>>

\* os.path.exists(results_dir)
CheckResultsDir ==
    /\ pc = "start"
    /\ \E exists \in BOOLEAN :
          IF exists
          THEN pc' = "loop" /\ exit_code' = exit_code
          ELSE pc' = "exit" /\ exit_code' = 1
    /\ UNCHANGED <<capture, i, file, all_passed, tests_run, log, viewport, elements,
                   errors, warnings, call, ret>>

\* a runner that counts a missing file as a failure
FileMissing_CountsAsFailure ==
    /\ pc = "loop"
    /\ i <= NumTests
    /\ file' = MissingFile
    /\ log' = Append(log, [outcome |-> "missing", errors |-> FALSE, warnings |-> FALSE])
    /\ i' = i + 1
    /\ all_passed' = FALSE
    /\ UNCHANGED <<capture, pc, tests_run, exit_code, viewport, elements,
                   errors, warnings, call, ret>>

\* not os.path.exists(json_path): print the warning line and continue
FileMissing ==
    /\ pc = "loop"
    /\ i <= NumTests
    /\ file' = MissingFile
    /\ log' = Append(log, [outcome |-> "missing", errors |-> FALSE, warnings |-> FALSE])
    /\ i' = i + 1
    /\ UNCHANGED <<capture, pc, all_passed, tests_run, exit_code, viewport, elements,
                   errors, warnings, call, ret>>

\* os.path.exists(json_path): enter the try block
FileFound ==
    /\ pc = "loop"
    /\ i <= NumTests
    /\ \E f \in RunnerFiles : file' = f
    /\ pc' = "construct"
    /\ UNCHANGED <<capture, i, all_passed, tests_run, exit_code, log, viewport, elements,
                   errors, warnings, call, ret>>

\* run_tests returned: `if not test.report(): all_passed = False`, `tests_run += 1`
Report ==
    /\ pc = "run_tests"
    /\ call' = [op |-> "report", args |-> NoArgs]
    /\ ret' = RetBool(report(Self))
    /\ all_passed' = IF ~report(Self) THEN FALSE ELSE all_passed
    /\ tests_run' = tests_run + 1
    /\ log' = Append(log, Result(IF report(Self) THEN "passed" ELSE "failed"))
    /\ i' = i + 1
    /\ pc' = "loop"
    /\ UNCHANGED <<capture, file, exit_code, viewport, elements, errors, warnings>>

\* a runner whose loop an exception ends
ExceptHandler_Breaks ==
    /\ pc = "except"
    /\ all_passed' = FALSE
    /\ log' = Append(log, Result(IF call.op = "__init__" THEN "load_error" ELSE "exception"))
    /\ i' = i + 1
    /\ pc' = "summary"
    /\ UNCHANGED <<capture, file, tests_run, exit_code, viewport, elements, errors, warnings, call, ret>>

\* except Exception: all_passed = False
ExceptHandler ==
    /\ pc = "except"
    /\ all_passed' = FALSE
    /\ log' = Append(log, Result(IF call.op = "__init__" THEN "load_error" ELSE "exception"))
    /\ i' = i + 1
    /\ pc' = "loop"
    /\ UNCHANGED <<capture, file, tests_run, exit_code, viewport, elements, errors, warnings, call, ret>>

\* the for loop is over
LoopDone ==
    /\ pc = "loop"
    /\ i > NumTests
    /\ pc' = "summary"
    /\ UNCHANGED <<capture, i, file, all_passed, tests_run, exit_code, log, viewport, elements,
                   errors, warnings, call, ret>>

ExitStatus(run, passed) == IF run = 0 THEN 1 ELSE IF passed THEN 0 ELSE 1

\* sys.exit
Exit ==
    /\ pc = "summary"
    /\ exit_code' = ExitStatus(tests_run, all_passed)
    /\ pc' = "exit"
    /\ UNCHANGED <<capture, i, file, all_passed, tests_run, log, viewport, elements,
                   errors, warnings, call, ret>>

RunTests ==
    \/ FindElement
    \/ FindAllElements
    \/ AssertElementExists
    \/ AssertElementNotExists
    \/ AssertElementVisible
    \/ AssertButtonText
    \/ AssertElementAlignment
    \/ AssertButtonEnabled
    \/ AssertButtonDisabled
    \/ AssertHasDisabledStyles
    \/ AssertHasErrorStyling
    \/ AssertInViewport
    \/ AssertFullyVisible
    \/ AssertHasTransitionClasses
    \/ InlineError
    \/ InlineWarning
    \/ Continue

Init ==
    /\ pc = "start"
    /\ i = 1
    /\ file = MissingFile
    /\ all_passed = TRUE
    /\ tests_run = 0
    /\ exit_code = -1
    /\ log = <<>>
    /\ viewport = EmptyDict
    /\ elements = <<>>
    /\ errors = <<>>
    /\ warnings = <<>>
    /\ call = [op |-> "none", args |-> NoArgs]
    /\ ret = RetNone
    /\ page = IdlePage
    /\ layoutML = NoLayoutML
    /\ script = IdleScript

Next ==
    \/ CheckResultsDir
    \/ FileMissing
    \/ FileFound
    \/ Construct
    \/ RunTests
    \/ Report
    \/ ExceptHandler
    \/ LoopDone
    \/ Exit

Spec == Init /\ [][Next]_vars

(***************************************************************************)
(* One test case on its own: a test object is built from any file and its  *)
(* methods are called, as main() does for one entry of `tests`.            *)
(***************************************************************************)
TestInit ==
    /\ pc = "construct"
    /\ i = 1
    /\ file \in Files
    /\ all_passed = TRUE
    /\ tests_run = 0
    /\ exit_code = -1
    /\ log = <<>>
    /\ viewport = EmptyDict
    /\ elements = <<>>
    /\ errors = <<>>
    /\ warnings = <<>>
    /\ call = [op |-> "none", args |-> NoArgs]
    /\ ret = RetNone
    /\ page = IdlePage
    /\ layoutML = NoLayoutML
    /\ script = IdleScript

TestNext ==
    \/ Construct
    \/ RunTests
    \/ Report
    \/ ExceptHandler

TestSpec == TestInit /\ [][TestNext]_vars

(***************************************************************************)
(* The node script of one screenshot: the page renders some document and   *)
(* page.evaluate computes layoutML from it.                                *)
(***************************************************************************)
\* const layoutML = await page.evaluate(...)
Evaluate ==
    /\ ~page.evaluated
    /\ page.document # NoDocument
    /\ layoutML' = EvaluateLayoutML(page.document)
    /\ page' = [page EXCEPT !.evaluated = TRUE]
    /\ UNCHANGED <<runner, script>>

ProducerInit ==
    /\ pc = "start"
    /\ i = 1
    /\ file = MissingFile
    /\ all_passed = TRUE
    /\ tests_run = 0
    /\ exit_code = -1
    /\ log = <<>>
    /\ viewport = EmptyDict
    /\ elements = <<>>
    /\ errors = <<>>
    /\ warnings = <<>>
    /\ call = [op |-> "none", args |-> NoArgs]
    /\ ret = RetNone
    /\ page \in {[document |-> d, evaluated |-> FALSE] : d \in DocumentsOf(MaxNodes)}
    /\ layoutML = NoLayoutML
    /\ script = IdleScript

ProducerNext == Evaluate

ProducerSpec == ProducerInit /\ [][ProducerNext]_vars

(***************************************************************************)
(* The capture script from its argument parsing to its exit.               *)
(***************************************************************************)
\* the pages of script_dir that have a <page>.json, in listing order
RECURSIVE ListedFrom(_, _)
ListedFrom(fs, k) ==
    IF k > Len(Pages) THEN <<>>
    ELSE (IF Pages[k] \in fs.dirs /\ Pages[k] \in fs.configs THEN <<Pages[k]>> ELSE <<>>)
         \o ListedFrom(fs, k + 1)

\* page_dirs as both branches of the script compute it
PageDirs(args, fs) ==
    IF args.page # ""
    THEN IF args.page \in fs.dirs THEN <<args.page>> ELSE <<>>
    ELSE ListedFrom(fs, 1)

\* if args.test_only: determine the pages to test
TestOnly ==
    /\ script.pc = "main"
    /\ script.args.test_only
    /\ script' = [script EXCEPT !.pc = "tests", !.page_dirs = PageDirs(script.args, script.fs)]
    /\ UNCHANGED <<runner, page, layoutML>>

\* free the ports, build the CSS, start AutoHost and AutoWeb
StartServers ==
    /\ script.pc = "main"
    /\ ~script.args.test_only
    /\ script' = [script EXCEPT !.pc = "wait", !.autohost_proc = "running",
                                !.autoweb_proc = "running"]
    /\ UNCHANGED <<runner, page, layoutML>>

\* poll the servers for at most max_wait seconds, then verify them; neither ends the script
WaitForServers ==
    /\ script.pc = "wait"
    /\ script' = [script EXCEPT !.pc = "select"]
    /\ UNCHANGED <<runner, page, layoutML>>

\* Determine which pages to capture
SelectPages ==
    /\ script.pc = "select"
    /\ LET page_dirs == PageDirs(script.args, script.fs)
       IN  IF script.args.page # "" /\ page_dirs = <<>>
           THEN script' = [script EXCEPT !.pc = "exit", !.exit_code = 1]
           ELSE script' = [script EXCEPT !.pc = "configs", !.page_dirs = page_dirs]
    /\ UNCHANGED <<runner, page, layoutML>>

\* read screenshots.json, or the <page>.json of every page; open() raises for a page
\* without one, and nothing catches it
LoadConfigs ==
    /\ script.pc = "configs"
    /\ IF script.page_dirs = <<>>
       THEN IF script.fs.legacy
            THEN script' = [script EXCEPT !.pc = "capture", !.screenshots_to_capture = 1]
            ELSE script' = [script EXCEPT !.pc = "exit", !.exit_code = 1]
       ELSE IF \E k \in 1..Len(script.page_dirs) : script.page_dirs[k] \notin script.fs.configs
            THEN script' = [script EXCEPT !.pc = "exit", !.exit_code = 1]
            ELSE script' = [script EXCEPT !.pc = "capture",
                                          !.screenshots_to_capture = Len(script.page_dirs)]
    /\ UNCHANGED <<runner, page, layoutML>>

\* one pass of `for screenshot in screenshots_to_capture`: write and run the node script
CaptureScreenshot ==
    /\ script.pc = "capture"
    /\ script.screenshots_to_capture > 0
    /\ script' = [script EXCEPT !.screenshots_to_capture = @ - 1]
    /\ UNCHANGED <<runner, page, layoutML>>

\* Clean up servers
CleanUp ==
    /\ script.pc = "capture"
    /\ script.screenshots_to_capture = 0
    /\ script' = [script EXCEPT !.pc = "tests", !.autohost_proc = "terminated",
                                !.autoweb_proc = "terminated"]
    /\ UNCHANGED <<runner, page, layoutML>>

\* one pass of `for page_dir in page_dirs`: run the page's test script if there is one
TestPage ==
    /\ script.pc = "tests"
    /\ script.tested < Len(script.page_dirs)
    /\ LET page_dir == script.page_dirs[script.tested + 1]
       IN  IF page_dir \in script.fs.tests
           THEN \E returncode \in {0, 1} :
                   script' = [script EXCEPT !.tested = @ + 1,
                                 !.all_tests_passed = IF returncode # 0 THEN FALSE ELSE @]
           ELSE script' = [script EXCEPT !.tested = @ + 1]
    /\ UNCHANGED <<runner, page, layoutML>>

\* sys.exit(0) or sys.exit(1) after the tests
ScriptExit ==
    /\ script.pc = "tests"
    /\ script.tested = Len(script.page_dirs)
    /\ script' = [script EXCEPT !.pc = "exit",
                                !.exit_code = IF script.all_tests_passed THEN 0 ELSE 1]
    /\ UNCHANGED <<runner, page, layoutML>>

CaptureInit ==
    /\ pc = "start"
    /\ i = 1
    /\ file = MissingFile
    /\ all_passed = TRUE
    /\ tests_run = 0
    /\ exit_code = -1
    /\ log = <<>>
    /\ viewport = EmptyDict
    /\ elements = <<>>
    /\ errors = <<>>
    /\ warnings = <<>>
    /\ call = [op |-> "none", args |-> NoArgs]
    /\ ret = RetNone
    /\ page = IdlePage
    /\ layoutML = NoLayoutML
    /\ script \in {ScriptAt("main", p, t, fs) : p \in PageArgs, t \in BOOLEAN, fs \in FileSystems}

CaptureNext ==
    \/ TestOnly
    \/ StartServers
    \/ WaitForServers
    \/ SelectPages
    \/ LoadConfigs
    \/ CaptureScreenshot
    \/ CleanUp
    \/ TestPage
    \/ ScriptExit

CaptureSpec == CaptureInit /\ [][CaptureNext]_vars

(***************************************************************************)
(* Properties.                                                             *)
(***************************************************************************)
IsPrefix(s, t) == Len(s) <= Len(t) /\ SubSeq(t, 1, Len(s)) = s

\* the test object has just been constructed, or the constructor has just raised
JustConstructed == call.op = "__init__" /\ pc \in {"run_tests", "except"}

Exited == pc = "exit" /\ Len(log) = NumTests

Cases == 1..Len(log)

Raised(k) == log[k].outcome \in {"load_error", "exception"}

Reported(k) == log[k].outcome \in {"passed", "failed"}

C3_ExitStatusIsAndOfCases ==
    (Exited /\ \A k \in Cases : log[k].outcome \notin {"missing", "load_error"})
        => (exit_code = 0 <=> \A k \in Cases : ~log[k].errors)

SixAssertions ==
    {"assert_element_visible", "assert_in_viewport", "assert_fully_visible",
     "assert_element_alignment", "assert_button_enabled", "assert_button_disabled"}

\* C5: for every element the loader can produce, each of the six assertions returns
\* normally: none of them raises.
C5_AssertionsNeverRaise == pc = "except" => call.op \notin SixAssertions

\* a method of the test object is running or has just returned to run_tests
InRunTests == pc \in {"run_tests", "called"}

\* C6: a call on the test object only appends to errors and warnings: what the two
\* lists held before the call is a prefix of what they hold after it, and the viewport
\* and the element sequence are unchanged.
C6_CallsOnlyAppend ==
    [][InRunTests =>
          /\ IsPrefix(errors, errors')
          /\ IsPrefix(warnings, warnings')
          /\ viewport' = viewport
          /\ elements' = elements]_vars

\* an assertion has appended to a list that held an inline entry before
C6_Witness ==
    /\ pc = "called"
    /\ call.op = "assert_fully_visible"
    /\ Len(errors) = 3
    /\ errors[1].fmt = "inline check"
    /\ errors[2].fmt = "element is clipped by parent container"
    /\ errors[3].fmt = "element is px cut off"

\* C7: report() returns true iff the error list is empty when it is called, whatever
\* the warnings.
C7_ReportIffNoErrors == call.op = "report" => ret = RetBool(errors = <<>>)

C7_Witness == call.op = "report" /\ ret = RetBool(TRUE) /\ errors = <<>> /\ warnings # <<>>

\* the record element k of the test object was loaded from
Raw(k) == file.data["elements"][k]

\* the test object of the state was built from `file`
Loaded == pc \in {"run_tests", "called"} \/ (pc = "except" /\ call.op # "__init__")

ClipFmts == {"element is clipped by parent container", "element is px cut off"}

\* C8: an element whose record has no `visibleRect` has its rect as visible box, and an
\* element whose record has no `visibility` counts as not clipped: isClipped is false
\* and assert_fully_visible appends no clip error for it.
C8_LoaderFallbacks ==
    /\ [](Loaded =>
            \A k \in 1..Len(elements) :
                /\ ~Has(Raw(k), "visibleRect") =>
                      /\ elements[k].visibleRect = elements[k].rect
                      /\ elements[k].rect = Get(Raw(k), "rect", EmptyDict)
                /\ ~Has(Raw(k), "visibility") =>
                      Get(elements[k].visibility, "isClipped", FALSE) = FALSE)
    /\ [][(pc = "run_tests" /\ call'.op = "assert_fully_visible" /\ call'.args.element # 0) =>
            (~Has(Raw(call'.args.element), "visibility") =>
                \A n \in (Len(errors) + 1)..Len(errors') : errors'[n].fmt \notin ClipFmts)]_vars

C8_Witness ==
    /\ pc = "called"
    /\ call.op = "assert_fully_visible"
    /\ call.args.element # 0
    /\ ~Has(Raw(call.args.element), "visibility")
    /\ ~Has(Raw(call.args.element), "visibleRect")
    /\ Has(Raw(call.args.element), "rect")
    /\ elements[call.args.element].visibleRect = Raw(call.args.element)["rect"]

Wanted(element, tag, text, type, supplied(_)) ==
    /\ element.tag = tag
    /\ supplied(text) => Contains(text, element.text)
    /\ supplied(type) => element.type = type

NotNone(s) == s # NONE

NotEmpty(s) == s # NONE /\ s # <<>>

\* ret lists, in captured order and once each, exactly the elements that are wanted
ExactSubsequence(supplied(_)) ==
    /\ \A n \in 1..Len(ret.refs) : ret.refs[n] \in 1..Len(elements)
    /\ \A m, n \in 1..Len(ret.refs) : m < n => ret.refs[m] < ret.refs[n]
    /\ \A k \in 1..Len(elements) :
          (\E n \in 1..Len(ret.refs) : ret.refs[n] = k)
              <=> Wanted(elements[k], call.args.tag, call.args.text, call.args.type, supplied)

\* C10 as claimed: find_all_elements returns exactly the subsequence of the elements
\* whose tag is `tag`, whose text contains `text` when a text filter is supplied and
\* whose type equals `type` when a type filter is supplied.
C10_FindAllBySuppliedFilters ==
    (pc = "called" /\ call.op = "find_all_elements") => ExactSubsequence(NotNone)

\* C10 as amended: the same with a filter applied only when it is a non-empty string;
\* an empty-string type filter, like None, filters nothing.
C10_FindAllByNonEmptyFilters ==
    (pc = "called" /\ call.op = "find_all_elements") => ExactSubsequence(NotEmpty)

\* the second element is found by a substring of its text and the first is left out
C10_Witness ==
    /\ pc = "called"
    /\ call.op = "find_all_elements"
    /\ call.args.text = <<"Password">>
    /\ Len(elements) = 2
    /\ elements[2].text = <<"Create", " ", "Password">>
    /\ ret = RetList(<<2>>)

\* the call the step makes: method `op` of the test object is called from run_tests
Calls(op) == pc = "run_tests" /\ call'.op = op

\* the call of the step returns to run_tests
Returns == pc' = "called"

\* what find_all_elements returns for the query of the step's call
AllMatches ==
    find_all_elements(Self, call'.args.tag, call'.args.text, call'.args.type)

\* the step appends exactly n entries to errors and keeps what was there
AppendsErrors(n) == Len(errors') = Len(errors) + n /\ IsPrefix(errors, errors')

\* the step leaves warnings as they were
NoWarning == warnings' = warnings

\* C11: find_element returns the first element of what find_all_elements returns for
\* the same arguments, and returns None, without raising, exactly when that list is
\* empty.
C11_FindFirstIsHeadOfFindAll ==
    [][Calls("find_element") =>
          /\ Returns
          /\ AllMatches = <<>> <=> ret' = RetNone
          /\ AllMatches # <<>> => ret' = RetElement(Head(AllMatches))]_vars

\* find_element has skipped the first element and returned the second, the only match
C11_Witness ==
    /\ pc = "called"
    /\ call.op = "find_element"
    /\ Len(elements) = 2
    /\ elements[1].tag = call.args.tag
    /\ ret = RetElement(2)
    /\ find_all_elements(Self, call.args.tag, call.args.text, call.args.type) = <<2>>

\* C12: assert_element_exists appends exactly one error iff no element matches, and
\* otherwise appends nothing and returns the first match; assert_element_not_exists
\* appends exactly one error iff some element matches, and otherwise nothing; neither
\* appends a warning.
C12_ExistenceAssertions ==
    /\ [][Calls("assert_element_exists") =>
             /\ Returns /\ NoWarning
             /\ IF AllMatches = <<>>
                THEN AppendsErrors(1) /\ errors'[Len(errors')].fmt = "Element not found"
                     /\ ret' = RetNone
                ELSE AppendsErrors(0) /\ ret' = RetElement(Head(AllMatches))]_vars
    /\ [][Calls("assert_element_not_exists") =>
             /\ Returns /\ NoWarning
             /\ IF AllMatches # <<>>
                THEN AppendsErrors(1) /\ errors'[Len(errors')].fmt = "Unexpected element found"
                ELSE AppendsErrors(0)]_vars

\* both assertions have failed in one test case: no label exists, an input does
C12_Witness ==
    /\ pc = "called"
    /\ call.op = "assert_element_not_exists"
    /\ Len(errors) = 2
    /\ errors[1].fmt = "Element not found"
    /\ errors[2].fmt = "Unexpected element found"
    /\ warnings = <<>>

\* the element the step's call is about, and the errors the step appends
Subject == elements[call'.args.element]

Appended == SubSeq(errors', Len(errors) + 1, Len(errors'))

AppendedFmts == {Appended[n].fmt : n \in 1..Len(Appended)}

\* the conditions of assert_element_visible that element e violates, each named by the
\* message that reports it
HiddenBy(e) ==
    LET vw == Get(viewport, "width", DefaultViewportWidth)
        vh == Get(viewport, "height", DefaultViewportHeight)
        opacity == Get(e.style, "opacity", "1")
    IN  (IF Get(e.style, "display", "<None>") = "none"
            THEN {"is hidden (display: none)"} ELSE {})
        \cup (IF Get(e.style, "visibility", "<None>") = "hidden"
            THEN {"is hidden (visibility: hidden)"} ELSE {})
        \cup (IF FloatParses(opacity) /\ FloatIsZero(opacity)
            THEN {"is invisible (opacity: 0)"} ELSE {})
        \cup (IF Has(e.rect, "x") /\ e.rect["x"] >= vw
            THEN {"is outside viewport (x >= viewport width)"} ELSE {})
        \cup (IF Has(e.rect, "y") /\ e.rect["y"] >= vh
            THEN {"is outside viewport (y >= viewport height)"} ELSE {})

\* C13: assert_element_visible appends one error for each of the five conditions
\* (display none, visibility hidden, opacity 0, x >= viewport width, y >= viewport
\* height) the element violates, hence none iff it violates none, and never a warning.
C13_OneErrorPerHiddenCondition ==
    [][(Calls("assert_element_visible") /\ call'.args.element # 0) =>
          /\ NoWarning
          /\ IsPrefix(errors, errors')
          /\ AppendedFmts = HiddenBy(Subject)
          /\ Len(Appended) = Cardinality(HiddenBy(Subject))]_vars

\* the element carries visibility info: its visibility dict is not empty
HasVisibilityInfo(e) == DOMAIN e.visibility # {}

IsClipped(e) == Get(e.visibility, "isClipped", FALSE)

\* the visible and the original height of e: the value of its visibility info, and the
\* height of its visible box resp. raw box where the info does not give one
VisibleHeight(e) == Get(e.visibility, "visibleHeight", Get(e.visibleRect, "height", 0))

OriginalHeight(e) == Get(e.visibility, "originalHeight", Get(e.rect, "height", 0))

\* the call of the step is assert_fully_visible on an element with visibility info
ChecksClipping ==
    /\ Calls("assert_fully_visible")
    /\ call'.args.element # 0
    /\ HasVisibilityInfo(Subject)

\* C14: for an element that carries visibility info, assert_fully_visible appends no
\* error iff isClipped is false and visibleHeight >= originalHeight; it appends a clip
\* error whenever isClipped is true, and whenever visibleHeight < originalHeight an
\* error that reports the deficit originalHeight - visibleHeight.
C14_ClipErrors ==
    [][ChecksClipping =>
          /\ Returns /\ NoWarning /\ IsPrefix(errors, errors')
          /\ Appended = <<>> <=>
                (~IsClipped(Subject) /\ VisibleHeight(Subject) >= OriginalHeight(Subject))
          /\ IsClipped(Subject) => "element is clipped by parent container" \in AppendedFmts
          /\ VisibleHeight(Subject) < OriginalHeight(Subject) =>
                \E n \in 1..Len(Appended) :
                    /\ Appended[n].fmt = "element is px cut off"
                    /\ Appended[n].n1 = OriginalHeight(Subject) - VisibleHeight(Subject)]_vars

\* an element marked clipped with nothing cut off has got the clip error alone
C14_Witness ==
    /\ pc = "called"
    /\ call.op = "assert_fully_visible"
    /\ call.args.element # 0
    /\ IsClipped(elements[call.args.element])
    /\ VisibleHeight(elements[call.args.element]) = OriginalHeight(elements[call.args.element])
    /\ Len(errors) = 1
    /\ errors[1].fmt = "element is clipped by parent container"
    /\ errors[1].clips = <<"unknown sides">>

\* the element of the step's call is clipped at the bottom only and shows less than its
\* height
BottomClipped(e) ==
    /\ IsClipped(e)
    /\ Get(e.visibility, "clippedBottom", FALSE)
    /\ ~Get(e.visibility, "clippedTop", FALSE)
    /\ ~Get(e.visibility, "clippedLeft", FALSE)
    /\ ~Get(e.visibility, "clippedRight", FALSE)
    /\ VisibleHeight(e) < OriginalHeight(e)

\* C15 as claimed: for an element clipped at the bottom only with visibleHeight <
\* originalHeight, assert_fully_visible appends exactly one error, which cites the
\* bottom edge and the cut-off amount originalHeight - visibleHeight.
C15_OneErrorCitesBottomAndAmount ==
    [][(ChecksClipping /\ BottomClipped(Subject)) =>
          /\ Len(Appended) = 1
          /\ Appended[1].clips = <<"bottom">>
          /\ Appended[1].n1 = OriginalHeight(Subject) - VisibleHeight(Subject)]_vars

\* C15 as amended: it appends exactly two errors: the first says the element is clipped
\* and cites the bottom edge, the second cites the cut-off amount originalHeight -
\* visibleHeight with the visible and the total height.
C15_ClipErrorThenCutOffError ==
    [][(ChecksClipping /\ BottomClipped(Subject)) =>
          /\ Returns /\ NoWarning /\ IsPrefix(errors, errors')
          /\ Len(Appended) = 2
          /\ Appended[1].fmt = "element is clipped by parent container"
          /\ Appended[1].clips = <<"bottom">>
          /\ Appended[2].fmt = "element is px cut off"
          /\ Appended[2].n1 = OriginalHeight(Subject) - VisibleHeight(Subject)
          /\ Appended[2].n2 = VisibleHeight(Subject)]_vars

\* the element of the scenario, 20px visible of 80px, has got its two errors
C15_Witness ==
    /\ pc = "called"
    /\ call.op = "assert_fully_visible"
    /\ call.args.element # 0
    /\ BottomClipped(elements[call.args.element])
    /\ VisibleHeight(elements[call.args.element]) = 20
    /\ OriginalHeight(elements[call.args.element]) = 80
    /\ Len(errors) = 2
    /\ errors[1].clips = <<"bottom">>
    /\ errors[2].n1 = 60

\* the viewport edges the raw box of e extends past, each named by the message that
\* reports it; an edge counts where the rect holds the coordinates it is made of
EdgesViolated(e) ==
    LET rect == e.rect
        vw == Get(viewport, "width", DefaultViewportWidth)
        vh == Get(viewport, "height", DefaultViewportHeight)
    IN  (IF Has(rect, "x") /\ rect["x"] < 0
            THEN {"Element extends beyond left edge"} ELSE {})
        \cup (IF Has(rect, "x") /\ Has(rect, "width") /\ rect["x"] + rect["width"] > vw
            THEN {"Element extends beyond right edge"} ELSE {})
        \cup (IF Has(rect, "y") /\ rect["y"] < 0
            THEN {"Element extends beyond top edge"} ELSE {})
        \cup (IF Has(rect, "y") /\ Has(rect, "height") /\ rect["y"] + rect["height"] > vh
            THEN {"Element extends beyond bottom edge"} ELSE {})

\* C16: assert_in_viewport appends exactly one error for each violated edge among
\* x < 0, y < 0, x + width > viewport width and y + height > viewport height, so the
\* number of errors appended is the number of violated edges and is zero iff the raw
\* box lies inside the viewport; it appends no warning.
C16_OneErrorPerViolatedEdge ==
    [][(Calls("assert_in_viewport") /\ call'.args.element # 0) =>
          /\ NoWarning
          /\ IsPrefix(errors, errors')
          /\ AppendedFmts = EdgesViolated(Subject)
          /\ Len(Appended) = Cardinality(EdgesViolated(Subject))]_vars

\* the distance of two coordinates
Dist(a, b) == IF a > b THEN a - b ELSE b - a

\* rect holds the coordinates the edge is made of
HasEdge(rect, edge) ==
    IF edge = "left" THEN Has(rect, "x")
    ELSE IF edge \in {"right", "center"} THEN Has(rect, "x") /\ Has(rect, "width")
    ELSE FALSE

\* twice the edge coordinate: x for left, x + width for right, x + width / 2 for center
Edge2(rect, edge) ==
    IF edge = "left" THEN 2 * rect["x"]
    ELSE IF edge = "right" THEN 2 * (rect["x"] + rect["width"])
    ELSE 2 * rect["x"] + rect["width"]

\* elements a and b (0 is an absent element) are both present and their edge
\* coordinates differ by more than tol
Misaligned(a, b, edge, tol) ==
    /\ a # 0 /\ b # 0
    /\ HasEdge(elements[a].rect, edge) /\ HasEdge(elements[b].rect, edge)
    /\ Dist(Edge2(elements[a].rect, edge), Edge2(elements[b].rect, edge)) > 2 * tol

\* C17: assert_element_alignment(a, b, edge, tol) appends exactly one error iff both
\* elements are present and their edge coordinates differ by more than tol; otherwise
\* it appends nothing, so it does nothing when an element is absent.  Whether an error
\* is appended is the same for (a, b) and (b, a).
C17_AlignmentError ==
    [][Calls("assert_element_alignment") =>
          LET a == call'.args.element
              b == call'.args.element2
              edge == call'.args.alignment
              tol == call'.args.tolerance
          IN  /\ NoWarning /\ IsPrefix(errors, errors')
              /\ IF Misaligned(a, b, edge, tol) THEN Len(Appended) = 1 ELSE Appended = <<>>
              /\ (a = 0 \/ b = 0) => (Returns /\ errors' = errors)
              /\ Len(assert_element_alignment(Self, b, a, edge, tol).errors) = Len(errors')]_vars

\* two elements with equal left edges, the first ending 40px before the second, have
\* failed the right alignment with tolerance 1
C17_Witness ==
    /\ pc = "called"
    /\ call.op = "assert_element_alignment"
    /\ call.args.alignment = "right"
    /\ call.args.tolerance = 1
    /\ call.args.element # 0 /\ call.args.element2 # 0
    /\ elements[call.args.element].rect = Rect(460, 200, 360, 40)
    /\ elements[call.args.element2].rect = Rect(460, 260, 400, 40)
    /\ Len(errors) = 1
    /\ errors[1].fmt = "are not right-aligned"
    /\ errors[1].n1 = 40

\* the space-separated tokens of a class list, from position k on; cur is the token
\* being read
RECURSIVE TokensFrom(_, _, _)
TokensFrom(classes, k, cur) ==
    IF k > Len(classes) THEN (IF cur = <<>> THEN {} ELSE {cur})
    ELSE IF classes[k] = " "
         THEN (IF cur = <<>> THEN {} ELSE {cur}) \cup TokensFrom(classes, k + 1, <<>>)
         ELSE TokensFrom(classes, k + 1, Append(cur, classes[k]))

Tokens(classes) == TokensFrom(classes, 1, <<>>)

\* the disabled-looking tokens, and their disabled:-prefixed forms
DisabledLooking == {<<"bg-gray", "-600">>, <<"cursor-not-allowed">>}

DisabledPrefixed == {<<"disabled:">> \o t : t \in DisabledLooking}

\* the two errors of assert_button_enabled that call the button disabled
DisabledErrors ==
    {"Button is disabled (has cursor-not-allowed)", "Button appears disabled (has gray background)"}

\* C18: assert_button_enabled appends a 'disabled' error iff the class list holds
\* bg-gray-600 or cursor-not-allowed as a space-separated token without a prefix,
\* whatever other tokens it holds; a list that holds such a token only behind a
\* conditional-style prefix gets no such error.
C18_DisabledErrorIffUnprefixedToken ==
    [][(Calls("assert_button_enabled") /\ call'.args.element # 0) =>
          (AppendedFmts \cap DisabledErrors # {}
              <=> Tokens(Subject.classes) \cap DisabledLooking # {})]_vars

\* classes contains bg-gray-600 and neither disabled:bg-gray-600 nor
\* disabled:cursor-not-allowed
LooksDisabled(classes) ==
    /\ Contains(<<"bg-gray", "-600">>, classes)
    /\ ~Contains(<<"disabled:", "bg-gray", "-600">>, classes)
    /\ ~Contains(<<"disabled:", "cursor-not-allowed">>, classes)

\* C19: for a button whose classes contain bg-gray-600 and contain neither
\* disabled:bg-gray-600 nor disabled:cursor-not-allowed, assert_button_disabled appends
\* no error and assert_button_enabled appends at least one error.
C19_GrayButtonLooksDisabled ==
    /\ [][(Calls("assert_button_disabled") /\ call'.args.element # 0
              /\ LooksDisabled(Subject.classes)) =>
             (Returns /\ errors' = errors)]_vars
    /\ [][(Calls("assert_button_enabled") /\ call'.args.element # 0
              /\ LooksDisabled(Subject.classes)) =>
             (Returns /\ IsPrefix(errors, errors') /\ Len(Appended) >= 1
              /\ AppendedFmts \subseteq DisabledErrors)]_vars

\* the gray button has passed assert_button_disabled after it failed
\* assert_button_enabled with one error
C19_Witness ==
    /\ pc = "called"
    /\ call.op = "assert_button_disabled"
    /\ call.args.element # 0
    /\ LooksDisabled(elements[call.args.element].classes)
    /\ Len(errors) = 1
    /\ errors[1].fmt = "Button appears disabled (has gray background)"

\* C20: assert_button_disabled appends exactly one error iff the class list holds no
\* disabled-capable styling at all, neither bg-gray-600 nor cursor-not-allowed nor the
\* disabled:-prefixed form of either; a list with the prefixed forms only gets no
\* error, and no warning is appended.
C20_ErrorIffNoDisabledStyling ==
    [][(Calls("assert_button_disabled") /\ call'.args.element # 0) =>
          /\ Returns /\ NoWarning /\ IsPrefix(errors, errors')
          /\ IF Tokens(Subject.classes) \cap (DisabledLooking \cup DisabledPrefixed) = {}
             THEN Len(Appended) = 1
             ELSE Appended = <<>>]_vars

\* the warnings the step appends
AppendedWarnings == SubSeq(warnings', Len(warnings) + 1, Len(warnings'))

\* the class string holds neither form of bg-gray-600 or cursor-not-allowed (the
\* disabled: forms contain the plain ones)
NoDisabledStyling(classes) ==
    /\ ~Contains(<<"bg-gray", "-600">>, classes)
    /\ ~Contains(<<"cursor-not-allowed">>, classes)

\* the call of the step is assert_button_enabled on a button without disabled styling
ChecksUnstyledButton ==
    /\ Calls("assert_button_enabled")
    /\ call'.args.element # 0
    /\ NoDisabledStyling(Subject.classes)

\* C21 as claimed: for a button whose classes hold no disabled-capable styling,
\* assert_button_enabled reports the absence as a warning and appends no error.
C21_NoStylingIsAWarning ==
    [][ChecksUnstyledButton =>
          /\ errors' = errors
          /\ Len(AppendedWarnings) = 1 /\ IsPrefix(warnings, warnings')]_vars

\* C21 as amended: for such a button assert_button_enabled appends no error, and it
\* appends one warning, about missing hover states, iff the classes hold no 'hover:';
\* with a hover style it appends nothing.
C21_WarningIffNoHover ==
    [][ChecksUnstyledButton =>
          /\ Returns
          /\ errors' = errors
          /\ IsPrefix(warnings, warnings')
          /\ IF Contains(<<"hover:">>, Subject.classes)
             THEN AppendedWarnings = <<>>
             ELSE /\ Len(AppendedWarnings) = 1
                  /\ AppendedWarnings[1].fmt =
                        "Button missing hover states (may not be interactive)"]_vars

\* an element with a hover style and no disabled styling has passed without a warning
C21_Witness ==
    /\ pc = "called"
    /\ call.op = "assert_button_enabled"
    /\ call.args.element # 0
    /\ NoDisabledStyling(elements[call.args.element].classes)
    /\ Contains(<<"hover:">>, elements[call.args.element].classes)
    /\ errors = <<>>
    /\ warnings = <<>>

\* the class-family markers each cosmetic check looks for, and its warning
Markers(op) ==
    IF op = "assert_has_error_styling" THEN {<<"border-red">>, <<"text-red">>, <<"ring-red">>}
    ELSE IF op = "assert_has_transition_classes" THEN {<<"transition">>, <<"duration-">>}
    ELSE {<<"disabled:", "bg-gray">>}

MarkerWarning(op) ==
    IF op = "assert_has_error_styling" THEN "Element missing error styling"
    ELSE IF op = "assert_has_transition_classes"
         THEN "Element missing transition/animation classes"
    ELSE "Button missing disabled state styles (disabled:bg-gray-*)"

CosmeticChecks ==
    {"assert_has_error_styling", "assert_has_transition_classes", "assert_has_disabled_styles"}

\* C22: the cosmetic checks never append to errors: each appends exactly one warning
\* iff none of its markers occurs in the element's classes, and nothing otherwise.
C22_CosmeticChecksOnlyWarn ==
    [][\A op \in CosmeticChecks :
          Calls(op) =>
             /\ Returns
             /\ errors' = errors
             /\ IsPrefix(warnings, warnings')
             /\ IF /\ call'.args.element # 0
                   /\ \A mk \in Markers(op) : ~Contains(mk, Subject.classes)
                THEN /\ Len(AppendedWarnings) = 1
                     /\ AppendedWarnings[1].fmt = MarkerWarning(op)
                ELSE AppendedWarnings = <<>>]_vars

\* a test case with two cosmetic warnings and no error passes
C22_Witness ==
    /\ pc = "called"
    /\ call.op \in CosmeticChecks
    /\ Len(warnings) = 2
    /\ warnings[1].fmt = "Element missing error styling"
    /\ warnings[2].fmt = "Element missing transition/animation classes"
    /\ errors = <<>>
    /\ report(Self)

\* the assertion calls a test case can make on the test object of the state
ElementAssertions ==
    {"assert_element_visible", "assert_button_enabled", "assert_button_disabled",
     "assert_has_disabled_styles", "assert_has_error_styling", "assert_in_viewport",
     "assert_fully_visible", "assert_has_transition_classes"}

AssertionCalls ==
    {[op |-> op, args |-> QueryArgs(q, <<>>)] :
        op \in {"assert_element_exists", "assert_element_not_exists"}, q \in Queries}
    \cup {[op |-> op, args |-> ElementArgs(e, <<>>)] : op \in ElementAssertions, e \in Refs}
    \cup {[op |-> "assert_button_text", args |-> [NoArgs EXCEPT !.text = <<"Continue">>]]}
    \cup {[op |-> "assert_element_alignment",
           args |-> [NoArgs EXCEPT !.element = e1, !.element2 = e2, !.alignment = al,
                                   !.tolerance = 1]] :
             e1 \in Refs, e2 \in Refs, al \in {"left", "right"}}

\* the outcome of assertion call c on test object self
Apply(c, self) ==
    LET a == c.args
    IN  IF c.op = "assert_element_exists"
            THEN assert_element_exists(self, a.tag, a.text, a.type, a.message)
        ELSE IF c.op = "assert_element_not_exists"
            THEN assert_element_not_exists(self, a.tag, a.text, a.type, a.message)
        ELSE IF c.op = "assert_element_visible"
            THEN assert_element_visible(self, a.element, a.message)
        ELSE IF c.op = "assert_button_text" THEN assert_button_text(self, a.text, a.message)
        ELSE IF c.op = "assert_element_alignment"
            THEN assert_element_alignment(self, a.element, a.element2, a.alignment, a.tolerance)
        ELSE IF c.op = "assert_button_enabled"
            THEN assert_button_enabled(self, a.element, a.message)
        ELSE IF c.op = "assert_button_disabled"
            THEN assert_button_disabled(self, a.element, a.message)
        ELSE IF c.op = "assert_has_disabled_styles"
            THEN assert_has_disabled_styles(self, a.element, a.message)
        ELSE IF c.op = "assert_has_error_styling"
            THEN assert_has_error_styling(self, a.element, a.message)
        ELSE IF c.op = "assert_in_viewport" THEN assert_in_viewport(self, a.element, a.message)
        ELSE IF c.op = "assert_fully_visible"
            THEN assert_fully_visible(self, a.element, a.message)
        ELSE assert_has_transition_classes(self, a.element, a.message)

\* run_tests makes call c and then call d: d is not made when c raises
Then(c, d, self) ==
    LET o == Apply(c, self)
    IN  IF o.raised THEN o
        ELSE Apply(d, [self EXCEPT !.errors = o.errors, !.warnings = o.warnings])

\* s and t hold the same entries, each as often
IsPermutation(s, t) ==
    /\ Len(s) = Len(t)
    /\ \A m \in 1..Len(s) :
          Cardinality({n \in 1..Len(s) : s[n] = s[m]})
              = Cardinality({n \in 1..Len(t) : t[n] = s[m]})

\* the test object of the state with its two lists emptied
Fresh == [Self EXCEPT !.errors = <<>>, !.warnings = <<>>]

\* what call c appends to the errors and to the warnings of test object self
Appends(c, self) ==
    LET o == Apply(c, self)
    IN  [errors |-> SubSeq(o.errors, Len(self.errors) + 1, Len(o.errors)),
         warnings |-> SubSeq(o.warnings, Len(self.warnings) + 1, Len(o.warnings))]

\* C23 as claimed: assertions are independent and order-insensitive: what a call appends
\* does not depend on what errors and warnings already hold, and for any two assertion
\* calls A and B on the same loaded snapshot the error list after A;B is a permutation
\* of the one after B;A, likewise the warning list, and the verdict is the same.
C23_OrderInsensitive ==
    pc = "run_tests" =>
       \A c, d \in AssertionCalls :
          LET cd == Then(c, d, Self)
              dc == Then(d, c, Self)
          IN  /\ Appends(c, Self) = Appends(c, Fresh)
              /\ IsPermutation(cd.errors, dc.errors)
              /\ IsPermutation(cd.warnings, dc.warnings)
              /\ (cd.errors = <<>>) = (dc.errors = <<>>)

\* the element of the step's call carries no visibility info
NoVisibilityInfo == call'.args.element # 0 /\ DOMAIN Subject.visibility = {}

\* what assert_in_viewport does for the element and message of the step's call
ViewportCheck == assert_in_viewport(Self, call'.args.element, call'.args.message)

\* C28: when an element carries no visibility info, assert_fully_visible appends exactly
\* the errors that assert_in_viewport appends for the same element and message, in the
\* same order; it appends no clip or cut-off error and no warning, and it returns or
\* raises as assert_in_viewport does.
C28_FallsBackToViewportCheck ==
    [][(Calls("assert_fully_visible") /\ NoVisibilityInfo) =>
          /\ errors' = ViewportCheck.errors
          /\ IsPrefix(errors, errors')
          /\ AppendedFmts \cap ClipFmts = {}
          /\ NoWarning
          /\ Returns = ~ViewportCheck.raised]_vars

\* a button with no visibility info and a rect past the right edge of the viewport has
\* been checked by assert_fully_visible: the one error is the viewport check's
C28_Witness ==
    /\ pc = "called" /\ call.op = "assert_fully_visible" /\ call.args.element # 0
    /\ DOMAIN elements[call.args.element].visibility = {}
    /\ Len(errors) = 1 /\ errors[1].fmt = "Element extends beyond right edge"
    /\ errors[1].n1 = 860 /\ errors[1].n2 = 800

\* the document of the page and its nodes
Doc == page.document

Nodes == 1..Len(Doc)

\* the ancestors of node n, nearest first or not
RECURSIVE AncestorsFrom(_, _)
AncestorsFrom(document, parent) ==
    IF parent = 0 THEN {} ELSE {parent} \cup AncestorsFrom(document, document[parent].parent)

Ancestors(n) == AncestorsFrom(Doc, Doc[n].parent)

\* the record of node n is in the element list that was returned
InLayoutML(n) ==
    \E k \in 1..Len(layoutML.elements) : layoutML.elements[k] = ElementRecord(Doc, n)

\* the right and the bottom edge of a box given by x, y, width and height
RightOf(r) == r.x + r.width

BottomOf(r) == r.y + r.height

\* the walk turns an axis of node n inside out
Inverted(n) ==
    LET b == WalkUp(Doc, Doc[n].parent, Edges(getBoundingClientRect(Doc[n])), FALSE).bounds
    IN  b.right < b.left \/ b.bottom < b.top

\* C24 as claimed: every emitted element has a non-empty visible box contained in its raw
\* box: 0 < visibleRect.width <= rect.width, 0 < visibleRect.height <= rect.height, the
\* edges of the visible box lie within the edges of the raw box on both axes, and
\* visibleHeight <= originalHeight; a node whose clipping inverts an axis has zero extent
\* and is not emitted.
C24_VisibleBoxWithinRawBox ==
    page.evaluated =>
       /\ \A k \in 1..Len(layoutML.elements) :
             LET e == layoutML.elements[k]
             IN  /\ 0 < e.visibleRect.width /\ e.visibleRect.width <= e.rect.width
                 /\ 0 < e.visibleRect.height /\ e.visibleRect.height <= e.rect.height
                 /\ e.rect.x <= e.visibleRect.x /\ RightOf(e.visibleRect) <= RightOf(e.rect)
                 /\ e.rect.y <= e.visibleRect.y /\ BottomOf(e.visibleRect) <= BottomOf(e.rect)
                 /\ e.visibility.visibleHeight <= e.visibility.originalHeight
       /\ \A n \in Nodes :
             Inverted(n) =>
                /\ getVisibleBounds(Doc, n).visibleWidth = 0
                   \/ getVisibleBounds(Doc, n).visibleHeight = 0
                /\ ~Emitted(Doc, n)

\* a computed style that clips overflow: the shorthand or either axis is hidden or clip
ClipsOverflow(style) ==
    \/ style.overflow \in {"hidden", "clip"}
    \/ style.overflowX \in {"hidden", "clip"}
    \/ style.overflowY \in {"hidden", "clip"}

\* C25: an emitted element none of whose ancestors clips overflow has its raw box as
\* visible box (same x, y, width, height), is not clipped, and has none of the four
\* clipped-edge flags set.
C25_UnclippedKeepsRawBox ==
    page.evaluated =>
       \A n \in Nodes :
          (Emitted(Doc, n) /\ \A a \in Ancestors(n) : ~ClipsOverflow(Doc[a].style)) =>
             LET e == ElementRecord(Doc, n)
             IN  /\ InLayoutML(n)
                 /\ e.visibleRect = e.rect
                 /\ ~e.visibility.isClipped /\ e.visibility.isFullyVisible
                 /\ ~e.visibility.clippedTop /\ ~e.visibility.clippedBottom
                 /\ ~e.visibility.clippedLeft /\ ~e.visibility.clippedRight

\* a label two levels down has been emitted with its raw box although its parent and
\* grandparent, neither of which clips, have boxes that do not cover it
C25_Witness ==
    /\ page.evaluated /\ Len(Doc) = 3 /\ Doc[3].parent = 2
    /\ Doc[3].tag = "label" /\ Doc[3].box = Box(0, 0, 40, 40)
    /\ Doc[2].box = Box(2, 0, 38, 20) /\ Doc[1].box = Box(80, 0, 40, 40)
    /\ ~ClipsOverflow(Doc[2].style) /\ ~ClipsOverflow(Doc[1].style)
    /\ InLayoutML(3)
    /\ ElementRecord(Doc, 3).visibleRect = [x |-> 0, y |-> 0, width |-> 10, height |-> 10]

\* the ancestors of node n that clip on the horizontal axis and not on the vertical one
ClipsOnlyX(style) ==
    style.overflowX \in {"hidden", "clip"} /\ style.overflowY \notin {"hidden", "clip"}

\* C26 as claimed: an ancestor that clips on one axis only narrows the bounds on that
\* axis only: a node all of whose clipping ancestors clip horizontally only keeps its
\* top and bottom edge.
C26_OneAxisAncestorKeepsOtherAxis ==
    page.evaluated =>
       \A n \in Nodes :
          (\A a \in Ancestors(n) : ClipsOverflow(Doc[a].style) => ClipsOnlyX(Doc[a].style)) =>
             LET v == getVisibleBounds(Doc, n)
             IN  /\ v.visibleBounds.top = v.originalBounds.top
                 /\ v.visibleBounds.bottom = v.originalBounds.bottom
                 /\ ~v.clippedTop /\ ~v.clippedBottom

\* the ancestors of node n that the walk clips against
Clippers(n) == {a \in Ancestors(n) : IsClippingStyle(Doc[a].style)}

\* the greatest and the least of a non-empty set of numbers
Greatest(S) == CHOOSE x \in S : \A y \in S : y <= x

Least(S) == CHOOSE x \in S : \A y \in S : x <= y

\* C26 amended: an ancestor the walk clips against narrows the bounds on both axes,
\* whichever axis its overflow clips: the visible bounds of a node are its own box
\* intersected on all four edges with the box of every such ancestor.
C26_ClippingAncestorNarrowsBothAxes ==
    page.evaluated =>
       \A n \in Nodes :
          LET v == getVisibleBounds(Doc, n)
              o == v.originalBounds
              boxes == {getBoundingClientRect(Doc[a]) : a \in Clippers(n)}
          IN  /\ v.visibleBounds.top = Greatest({o.top} \cup {b.top : b \in boxes})
              /\ v.visibleBounds.bottom = Least({o.bottom} \cup {b.bottom : b \in boxes})
              /\ v.visibleBounds.left = Greatest({o.left} \cup {b.left : b \in boxes})
              /\ v.visibleBounds.right = Least({o.right} \cup {b.right : b \in boxes})

\* a label 10px high has been emitted 5px high: its parent, 5px high, hides overflow
\* on the horizontal axis only
C26_Witness ==
    /\ page.evaluated /\ Len(Doc) = 3 /\ Doc[3].parent = 2
    /\ Doc[3].tag = "label" /\ Doc[3].box = Box(0, 0, 40, 40)
    /\ Doc[2].box = Box(2, 0, 38, 20) /\ ClipsOnlyX(Doc[2].style)
    /\ ~ClipsOverflow(Doc[1].style)
    /\ InLayoutML(3)
    /\ ElementRecord(Doc, 3).visibility.clippedBottom
    /\ ElementRecord(Doc, 3).visibleRect.height = 5

\* C27 as claimed: an ancestor's box is intersected into the bounds iff its overflow
\* shorthand, overflow-x or overflow-y is hidden or clip; every such ancestor up to the
\* root is applied and no other changes the bounds; the same predicate on the node
\* itself decides isContainer.
C27_IntersectedIffClipsOverflow ==
    page.evaluated =>
       \A n \in Nodes :
          LET v == getVisibleBounds(Doc, n)
              o == v.originalBounds
              boxes == {getBoundingClientRect(Doc[a]) :
                           a \in {c \in Ancestors(n) : ClipsOverflow(Doc[c].style)}}
          IN  /\ v.visibleBounds.top = Greatest({o.top} \cup {b.top : b \in boxes})
              /\ v.visibleBounds.bottom = Least({o.bottom} \cup {b.bottom : b \in boxes})
              /\ v.visibleBounds.left = Greatest({o.left} \cup {b.left : b \in boxes})
              /\ v.visibleBounds.right = Least({o.right} \cup {b.right : b \in boxes})
              /\ ElementRecord(Doc, n).isContainer = ClipsOverflow(Doc[n].style)

\* the test object a test case builds from the layoutML that was returned
Loaded_LayoutML ==
    [ viewport |-> layoutML.viewport,
      elements |-> [k \in 1..Len(layoutML.elements) |-> from_dict(layoutML.elements[k])],
      errors |-> <<>>, warnings |-> <<>> ]

\* C29: for every emitted element isClipped is true iff at least one of clippedTop,
\* clippedBottom, clippedLeft, clippedRight is, and isFullyVisible is its negation; so
\* assert_fully_visible never reports `unknown sides` for an emitted element.
C29_ClippedIffSomeEdgeClipped ==
    page.evaluated =>
       \A k \in 1..Len(layoutML.elements) :
          LET y == layoutML.elements[k].visibility
              checked == assert_fully_visible(Loaded_LayoutML, k, <<>>)
          IN  /\ y.isClipped = (y.clippedTop \/ y.clippedBottom \/ y.clippedLeft \/ y.clippedRight)
              /\ y.isFullyVisible = ~y.isClipped
              /\ ~checked.raised
              /\ \A m \in 1..Len(checked.errors) : checked.errors[m].clips # <<"unknown sides">>

\* an element clipped at the bottom and on the left has been emitted, and
\* assert_fully_visible names the two sides
C29_Witness ==
    /\ page.evaluated
    /\ \E k \in 1..Len(layoutML.elements) :
          LET y == layoutML.elements[k].visibility
              checked == assert_fully_visible(Loaded_LayoutML, k, <<>>)
          IN  /\ y.isClipped /\ ~y.isFullyVisible
              /\ y.clippedLeft /\ y.clippedBottom /\ ~y.clippedTop /\ ~y.clippedRight
              /\ Len(checked.errors) = 2
              /\ checked.errors[1].clips = <<"bottom", "left">>

\* the script has started its two servers
ServersStarted == script.autohost_proc # "none" /\ script.autoweb_proc # "none"

ServersTerminated == script.autohost_proc = "terminated" /\ script.autoweb_proc = "terminated"

\* C30 as claimed: an execution that has started the AutoHost and AutoWeb servers
\* terminates both before the script exits, on every exit path, and runs the layout
\* tests only after the servers have been terminated.
C30_ServersTerminatedBeforeExit ==
    /\ (script.pc = "exit" /\ ServersStarted) => ServersTerminated
    /\ (script.pc = "tests" /\ ServersStarted) => ServersTerminated

====
